---- MODULE Spec2Model ----
(***************************************************************************)
(* A model of the ENS layer of web3.py (src/ens/main.py): name resolution  *)
(* through the on-chain registry and resolver contracts.  The on-chain     *)
(* state is the model's state; every public operation of class ENS is one  *)
(* action that runs the whole method against that state and records what   *)
(* it returned, what it raised and every RPC call it issued, in order.     *)
(***************************************************************************)
EXTENDS Integers, Sequences, FiniteSets, TLC

(***************************************************************************)
(* Bounds of the model.                                                    *)
(***************************************************************************)
\* number of labels of the deepest name of the forward chain
MaxDepth == 3
\* number of non-zero account addresses
NumAccounts == 2

(***************************************************************************)
(* Values.  A Python value that an operation handles or returns is a       *)
(* record tagged by k; None is the absent value.                           *)
(***************************************************************************)
None == [k |-> "None"]

\* An address: id 0 is the zero address, whose hex text has no letters, so
\* it has one textual form only; a non-zero address is written either in
\* lower-case hex or in EIP-55 checksum (mixed-case) hex.
Address(id, form) == [k |-> "address", id |-> id, form |-> form]
EMPTY_ADDR_HEX == Address(0, "checksum")
AccountIds == 1..NumAccounts
AddressForms == {"lower", "checksum"}
AddressValues ==
    {EMPTY_ADDR_HEX} \cup {Address(i, f) : i \in AccountIds, f \in AddressForms}

\* A text string that is a name: the sequence of its labels ('' is << >>).
Str(name) == [k |-> "str", name |-> name]

to_checksum_address(v) == Address(v.id, "checksum")
is_address(v) == v.k = "address"
is_none_or_zero_address(v) ==
    \/ v = None
    \/ v = Str(<< >>)
    \/ v = EMPTY_ADDR_HEX

(***************************************************************************)
(* Names.  A name is the sequence of its labels, most specific first; the  *)
(* empty name '' is the empty sequence.                                    *)
(***************************************************************************)
LabelPool == <<"eth", "b", "a", "x", "y", "z">>
UpperPool == <<"ETH", "B", "A", "X", "Y", "Z">>
HexPool == <<"0x1", "0x2", "0x3", "0x4">>

\* the deepest forward name, e.g. a.b.eth for MaxDepth = 3
FullName == [i \in 1..MaxDepth |-> LabelPool[MaxDepth - i + 1]]
Suffix(name, k) == SubSeq(name, k, Len(name))
ChainNames == {Suffix(FullName, k) : k \in 1..(MaxDepth + 1)}

\* normalize_name: lower-cases each label; a name with an empty label
\* (as in 'a..eth') is invalid.
NormalizeLabel(l) ==
    IF \E i \in 1..Len(UpperPool) : UpperPool[i] = l
    THEN LabelPool[CHOOSE i \in 1..Len(UpperPool) : UpperPool[i] = l]
    ELSE l
is_valid_name(name) == \A i \in 1..Len(name) : name[i] # ""
normalize_name(name) == [i \in 1..Len(name) |-> NormalizeLabel(name[i])]

is_empty_name(name) == name = << >>

\* a parent that drops the last label (labels[:-1] for labels[1:])
parent_drops_last(name) ==
    IF name = << >> THEN << >>
    ELSE IF Len(name) = 1 THEN << >> ELSE SubSeq(name, 1, Len(name) - 1)

\* a parent that drops two labels (labels[2:] for labels[1:])
parent_drops_two(name) ==
    IF name = << >> THEN << >>
    ELSE IF Len(name) <= 2 THEN << >> ELSE Tail(Tail(name))

\* ENS.parent
parent(name) ==
    IF name = << >> THEN << >>
    ELSE LET labels == name
         IN IF Len(labels) = 1 THEN << >> ELSE Tail(labels)

\* label_to_hash and normal_name_to_hash: a hash is modelled by the data it
\* is the fingerprint of.  The node of a name is built as the registry
\* builds it, root first: node(name) = H(node(parent(name)) ++ H(label)),
\* and node('') is the all-zero node.
label_to_hash(label) == <<"keccak", label>>
RECURSIVE normal_name_to_hash(_)
normal_name_to_hash(name) ==
    IF name = << >> THEN << >>
    ELSE Append(normal_name_to_hash(Tail(name)), label_to_hash(Head(name)))

\* address_to_reverse_domain: <lower-case hex of the address>.addr.reverse
REVERSE_REGISTRAR_DOMAIN == <<"addr", "reverse">>
address_to_reverse_domain(address) ==
    <<HexPool[address.id]>> \o REVERSE_REGISTRAR_DOMAIN

\* ens_encode_name: the labels as length-prefixed chunks, closed by the
\* zero-length chunk.
ens_encode_name(name) == name \o <<"">>

ReverseNames ==
    {address_to_reverse_domain(Address(i, "lower")) : i \in AccountIds}
        \cup {REVERSE_REGISTRAR_DOMAIN, <<"reverse">>}
\* the name whose address is the default (public) resolver
RESOLVER_ETH == <<"resolver", "eth">>
RegistryNames == ChainNames \cup ReverseNames \cup {RESOLVER_ETH}
Nodes == {normal_name_to_hash(n) : n \in RegistryNames}
ChainNodes == {normal_name_to_hash(n) : n \in ChainNames \ {<< >>}}

(***************************************************************************)
(* Contracts.                                                              *)
(***************************************************************************)
\* addresses of the resolver contracts deployed on chain, and of the registry
Resolvers == {Address(101, "checksum"), Address(102, "checksum")}
ENS_ADDR == Address(100, "checksum")

EXTENDED_RESOLVER_INTERFACE_ID == "0x9061b923"
GET_TEXT_INTERFACE_ID == "0x59d1d43c"
InterfaceIds == {EXTENDED_RESOLVER_INTERFACE_ID, GET_TEXT_INTERFACE_ID}

\* the ABIs a contract handle is built with
AbiKinds == {"RESOLVER", "REVERSE_RESOLVER", "EXTENDED_RESOLVER"}

\* outcomes of an eth_call of supportsInterface: a boolean, or a failure
\* of the call (revert, no such method on chain)
ProbeOutcomes == {"true", "false", "fail"}

TextKeys == {"url"}

VARIABLES
    owner,          \* registry: node -> address of the owner (zero: unowned)
    resolverOf,     \* registry: node -> address of the resolver (zero: none)
    supports,       \* resolver -> interface id -> outcome of supportsInterface
    addrRec,        \* resolver -> node -> the address it answers for addr
    nameRec,        \* resolver -> node -> the name it answers for name
    textRec,        \* resolver -> node -> value of the text record
    abiHasProbe,    \* ABI kind -> whether the ABI lists supportsInterface
    accounts,       \* w3.eth.accounts: ids of the accounts the node controls
    funds,          \* how many more transactions the accounts can pay for
    last,           \* the last operation: what it was called with and did
    now,            \* the clock (time.time(), the event loop's time), in ticks
    mined,          \* whether the node has the receipt of the transaction
    wait,           \* the wait_for_transaction_receipt call in progress
    tasks           \* the resolutions in progress that run step by step

vars == <<owner, resolverOf, supports, addrRec, nameRec, textRec, abiHasProbe,
          accounts, funds, last, now, mined, wait, tasks>>
waitVars == <<now, mined, wait>>
chainVars == <<owner, resolverOf, supports, addrRec, nameRec, textRec,
               abiHasProbe, accounts, funds>>

\* the on-chain state (and the node's account list) as one value, so that
\* an operation can be run against it
Chain ==
    [owner |-> owner, resolverOf |-> resolverOf, supports |-> supports,
     addrRec |-> addrRec, nameRec |-> nameRec, textRec |-> textRec,
     abiHasProbe |-> abiHasProbe, accounts |-> accounts, funds |-> funds]

(***************************************************************************)
(* What an operation did: the value it returned (ret) or the error it      *)
(* raised (err, "" when it returned), and the RPC calls it issued.         *)
(***************************************************************************)
Return(v, calls) == [ret |-> v, err |-> "", calls |-> calls]
Raise(e, calls) == [ret |-> None, err |-> e, calls |-> calls]

\* one RPC interaction: an eth_call (kind "call") or a transaction
\* (kind "transact") of function fn of contract `to`
Call(to, fn, node, arg) ==
    [kind |-> "call", to |-> to, fn |-> fn, node |-> node, arg |-> arg]
Transact(to, fn, node, arg, from) ==
    [kind |-> "transact", to |-> to, fn |-> fn, node |-> node,
     arg |-> [k |-> "tx", value |-> arg, from |-> from]]

\* a contract handle: an address together with the ABI it is wrapped in
Contract(address, abi) == [k |-> "contract", address |-> address, abi |-> abi]

\* ENS._type_aware_resolver
_type_aware_resolver(address, func) ==
    IF func = "name" THEN Contract(address, "REVERSE_RESOLVER")
    ELSE Contract(address, "RESOLVER")

\* ENS._get_resolver: the loop, with the calls issued so far
RECURSIVE _get_resolver_loop(_, _, _, _)

\* a loop that tests for the empty name only after it has read the registry
RECURSIVE _get_resolver_loop_reads_root(_, _, _, _)
_get_resolver_loop_reads_root(c, current_name, fn_name, calls) ==
    LET node == normal_name_to_hash(current_name)
        resolver_addr == c.resolverOf[node]
        calls1 == Append(calls, Call(ENS_ADDR, "resolver", node, None))
    IN IF ~is_none_or_zero_address(resolver_addr)
       THEN [resolver |-> _type_aware_resolver(resolver_addr, fn_name),
             current_name |-> current_name, calls |-> calls1]
       ELSE IF is_empty_name(current_name)
       THEN [resolver |-> None, current_name |-> current_name, calls |-> calls1]
       ELSE _get_resolver_loop_reads_root(c, parent(current_name), fn_name, calls1)

_get_resolver_loop(c, current_name, fn_name, calls) ==
    IF is_empty_name(current_name)
    THEN [resolver |-> None, current_name |-> current_name, calls |-> calls]
    ELSE LET node == normal_name_to_hash(current_name)
             resolver_addr == c.resolverOf[node]
             calls1 == Append(calls, Call(ENS_ADDR, "resolver", node, None))
         IN IF ~is_none_or_zero_address(resolver_addr)
            THEN [resolver |-> _type_aware_resolver(resolver_addr, fn_name),
                  current_name |-> current_name, calls |-> calls1]
            ELSE _get_resolver_loop(c, parent(current_name), fn_name, calls1)

_get_resolver(c, normal_name, fn_name) ==
    _get_resolver_loop(c, normal_name, fn_name, << >>)

\* a probe without the static check of the ABI
_resolver_supports_interface_no_static_check(c, resolver, interface_id) ==
    LET outcome == c.supports[resolver.address][interface_id]
        call == Call(resolver.address, "supportsInterface", << >>,
                     [k |-> "interface", id |-> interface_id])
    IN IF outcome = "fail"
       THEN [ret |-> FALSE, err |-> "ContractCallFailed", calls |-> <<call>>]
       ELSE Return(outcome = "true", <<call>>)

\* _resolver_supports_interface
_resolver_supports_interface(c, resolver, interface_id) ==
    IF ~c.abiHasProbe[resolver.abi]
    THEN Return(FALSE, << >>)
    ELSE LET outcome == c.supports[resolver.address][interface_id]
             call == Call(resolver.address, "supportsInterface", << >>,
                          [k |-> "interface", id |-> interface_id])
         IN IF outcome = "fail"
            THEN [ret |-> FALSE, err |-> "ContractCallFailed", calls |-> <<call>>]
            ELSE Return(outcome = "true", <<call>>)

\* what the resolver contract at address r answers to fn_name(node)
FieldAnswer(c, r, fn_name, node) ==
    IF fn_name = "name" THEN c.nameRec[r][node] ELSE c.addrRec[r][node]

\* extended_resolver.encodeABI(fn_name, [node])
encodeABI(fn_name, node) == [k |-> "calldata", fn |-> fn_name, node |-> node]

\* what the resolver contract at address r answers to resolve(name, data):
\* the ABI encoding of the tuple of output values of the wrapped call
ResolveAnswer(c, r, wire_name, calldata) ==
    <<FieldAnswer(c, r, calldata.fn, calldata.node)>>

\* ENS._decode_ensip10_resolve_data
_decode_ensip10_resolve_data(contract_call_result, fn_name) ==
    LET decoded == contract_call_result
    IN IF Len(decoded) = 1 THEN decoded[1] ELSE [k |-> "tuple", items |-> decoded]

\* a dispatch without the test that the resolver sits at the name itself
_resolve_branch_no_exact_match(supported, normal_name, current_name) ==
    IF supported THEN "extended" ELSE "direct"

\* a dispatch that tests for the exact match before the probe result
_resolve_branch_exact_first(supported, normal_name, current_name) ==
    IF normal_name = current_name THEN "direct"
    ELSE IF supported THEN "extended"
    ELSE "none"

\* ENS._resolve, lines 444-463: which of the three call shapes is used
_resolve_branch(supported, normal_name, current_name) ==
    IF supported THEN "extended"
    ELSE IF normal_name = current_name THEN "direct"
    ELSE "none"

\* ENS._resolve, lines 445-456: the extended (ENSIP-10) call and its result
_resolve_extended(c, resolver, normal_name, node, fn_name) ==
    LET extended_resolver == Contract(resolver.address, "EXTENDED_RESOLVER")
        calldata == encodeABI(fn_name, node)
        wire == ens_encode_name(normal_name)
        contract_call_result ==
            ResolveAnswer(c, extended_resolver.address, wire, calldata)
        result == _decode_ensip10_resolve_data(contract_call_result, fn_name)
    IN Return(IF is_address(result) THEN to_checksum_address(result) ELSE result,
              <<Call(extended_resolver.address, "resolve", << >>,
                     [k |-> "resolve", name |-> wire, data |-> calldata])>>)

\* a direct call whose result is returned as the contract gave it
_resolve_direct_raw(c, resolver, node, fn_name) ==
    LET result == FieldAnswer(c, resolver.address, fn_name, node)
        calls == <<Call(resolver.address, fn_name, node, None)>>
    IN IF is_none_or_zero_address(result) THEN Return(None, calls)
       ELSE Return(result, calls)

\* a direct lookup that is sent as a transaction instead of an eth_call
_resolve_direct_transacts(c, resolver, node, fn_name) ==
    LET result == FieldAnswer(c, resolver.address, fn_name, node)
        calls == <<Transact(resolver.address, fn_name, node, None, None)>>
    IN IF is_none_or_zero_address(result) THEN Return(None, calls)
       ELSE Return(IF is_address(result) THEN to_checksum_address(result)
                   ELSE result, calls)

\* ENS._resolve, lines 458-462: the direct call and its result
_resolve_direct(c, resolver, node, fn_name) ==
    LET result == FieldAnswer(c, resolver.address, fn_name, node)
        calls == <<Call(resolver.address, fn_name, node, None)>>
    IN IF is_none_or_zero_address(result) THEN Return(None, calls)
       ELSE Return(IF is_address(result) THEN to_checksum_address(result)
                   ELSE result, calls)

\* ENS._resolve
_resolve(c, name, fn_name) ==
    IF ~is_valid_name(name) THEN Raise("InvalidName", << >>)
    ELSE
    LET normal_name == normalize_name(name)
        found == _get_resolver(c, normal_name, fn_name)
        current_name == found.current_name
    IN IF found.resolver = None THEN Return(None, found.calls)
       ELSE
       LET node == normal_name_to_hash(normal_name)
           probe == _resolver_supports_interface(
                        c, found.resolver, EXTENDED_RESOLVER_INTERFACE_ID)
           calls1 == found.calls \o probe.calls
           branch == _resolve_branch(probe.ret, normal_name, current_name)
           answer ==
               IF branch = "extended"
               THEN _resolve_extended(c, found.resolver, normal_name, node, fn_name)
               ELSE IF branch = "direct"
               THEN _resolve_direct(c, found.resolver, node, fn_name)
               ELSE Return(None, << >>)
       IN IF probe.err # "" THEN Raise(probe.err, calls1)
          ELSE Return(answer.ret, calls1 \o answer.calls)

\* ENS.address
ENS_address(c, name) == _resolve(c, name, "addr")

\* a reverse lookup without the forward check
ENS_name_unchecked(c, addr) ==
    LET reversed_domain == address_to_reverse_domain(addr)
        rev == _resolve(c, reversed_domain, "name")
    IN rev

\* ENS.name; `addr` is the address argument
ENS_name(c, addr) ==
    LET reversed_domain == address_to_reverse_domain(addr)
        rev == _resolve(c, reversed_domain, "name")
        \* self.address(name): a None name is normalized to None, which is
        \* an empty name for _get_resolver, so nothing is read
        fwd == IF rev.ret.k = "str" THEN ENS_address(c, rev.ret.name)
               ELSE Return(None, << >>)
    IN IF rev.err # "" THEN rev
       ELSE IF fwd.err # "" THEN Raise(fwd.err, rev.calls \o fwd.calls)
       ELSE Return(IF to_checksum_address(addr) = fwd.ret THEN rev.ret ELSE None,
                   rev.calls \o fwd.calls)

\* a resolver lookup that reads the registry before it looks at the name
ENS_resolver_reads_first(c, name) ==
    LET read == <<Call(ENS_ADDR, "resolver", << >>, None)>>
    IN IF ~is_valid_name(name) THEN Raise("InvalidName", read)
       ELSE Return(_get_resolver(c, normalize_name(name), "addr").resolver,
                   read)

\* ENS.resolver
ENS_resolver(c, name) ==
    IF ~is_valid_name(name) THEN Raise("InvalidName", << >>)
    ELSE LET normal_name == normalize_name(name)
             found == _get_resolver(c, normal_name, "addr")
         IN Return(found.resolver, found.calls)

\* an owner lookup that finds no owner
ENS_owner_none(c, name) ==
    IF ~is_valid_name(name) THEN Raise("InvalidName", << >>)
    ELSE Return(EMPTY_ADDR_HEX,
                <<Call(ENS_ADDR, "owner",
                       normal_name_to_hash(normalize_name(name)), None)>>)

\* ENS.reverser
ENS_reverser(c, target_address) ==
    ENS_resolver(c, address_to_reverse_domain(target_address))

\* ENS.owner
ENS_owner(c, name) ==
    IF ~is_valid_name(name) THEN Raise("InvalidName", << >>)
    ELSE LET node == normal_name_to_hash(normalize_name(name))
         IN Return(c.owner[node], <<Call(ENS_ADDR, "owner", node, None)>>)

\* a get_text that asks for the record without probing the resolver
ENS_get_text_no_probe(c, name, key) ==
    IF ~is_valid_name(name) THEN Raise("InvalidName", << >>)
    ELSE
    LET node == normal_name_to_hash(normalize_name(name))
        normal_name == normalize_name(name)
        r == ENS_resolver(c, normal_name)
    IN IF r.ret # None
       THEN Return([k |-> "text", value |-> c.textRec[r.ret.address][node]],
                   r.calls \o <<Call(r.ret.address, "text", node,
                                     [k |-> "key", key |-> key])>>)
       ELSE Raise("ResolverNotFound", r.calls)

\* a get_text that reads the record only from a resolver registered at the
\* name itself
ENS_get_text_exact_only(c, name, key) ==
    IF ~is_valid_name(name) THEN Raise("InvalidName", << >>)
    ELSE
    LET node == normal_name_to_hash(normalize_name(name))
        normal_name == normalize_name(name)
        found == _get_resolver(c, normal_name, "addr")
        probe == _resolver_supports_interface(c, found.resolver,
                                              GET_TEXT_INTERFACE_ID)
    IN IF found.resolver # None /\ found.current_name = normal_name
       THEN IF probe.err # "" THEN Raise(probe.err, found.calls \o probe.calls)
            ELSE IF probe.ret
            THEN Return([k |-> "text",
                         value |-> c.textRec[found.resolver.address][node]],
                        found.calls \o probe.calls \o
                        <<Call(found.resolver.address, "text", node,
                               [k |-> "key", key |-> key])>>)
            ELSE Raise("UnsupportedFunction", found.calls \o probe.calls)
       ELSE Raise("ResolverNotFound", found.calls)

\* ENS.get_text
ENS_get_text(c, name, key) ==
    IF ~is_valid_name(name) THEN Raise("InvalidName", << >>)
    ELSE
    LET node == normal_name_to_hash(normalize_name(name))
        normal_name == normalize_name(name)
        r == ENS_resolver(c, normal_name)
        probe == _resolver_supports_interface(c, r.ret, GET_TEXT_INTERFACE_ID)
    IN IF r.ret # None
       THEN IF probe.err # "" THEN Raise(probe.err, r.calls \o probe.calls)
            ELSE IF probe.ret
            THEN Return([k |-> "text", value |-> c.textRec[r.ret.address][node]],
                        r.calls \o probe.calls \o
                        <<Call(r.ret.address, "text", node,
                               [k |-> "key", key |-> key])>>)
            ELSE Raise("UnsupportedFunction", r.calls \o probe.calls)
       ELSE Raise("ResolverNotFound", r.calls)

\* a transaction configuration (TxParams): only its 'from' entry is modelled,
\* None when the dictionary has no 'from'
TxParams(from) == [k |-> "dict", from |-> from]

\* eth_utils.toolz.merge({'from': owner}, transact)
merge_from(owner_addr, transact) ==
    IF transact.from # None THEN transact ELSE TxParams(owner_addr)

\* What the chain does with setText(node, key, value) sent to resolver r
\* from `from`: the node signs only for its own accounts, and the resolver
\* accepts the write only from the registry owner of the node.
TxAccepted(c, node, from) ==
    /\ from.k = "address"
    /\ from.id \in c.accounts
    /\ to_checksum_address(from) = c.owner[node]

\* ENS.set_text; the result also carries the chain after the operation
ENS_set_text(c, name, key, value, transact) ==
    IF ~is_valid_name(name)
    THEN [ret |-> None, err |-> "InvalidName", calls |-> << >>, chain |-> c]
    ELSE
    LET own == ENS_owner(c, name)
        node == normal_name_to_hash(normalize_name(name))
        normal_name == normalize_name(name)
        transaction_dict == merge_from(own.ret, transact)
        r == ENS_resolver(c, normal_name)
        probe == _resolver_supports_interface(c, r.ret, GET_TEXT_INTERFACE_ID)
        calls1 == own.calls \o r.calls
        tx == Transact(r.ret.address, "setText", node,
                       [k |-> "text", key |-> key, value |-> value],
                       transaction_dict.from)
    IN IF r.ret # None
       THEN IF probe.err # ""
            THEN [ret |-> None, err |-> probe.err,
                  calls |-> calls1 \o probe.calls, chain |-> c]
            ELSE IF probe.ret
            THEN IF TxAccepted(c, node, transaction_dict.from)
                 THEN [ret |-> [k |-> "txhash"], err |-> "",
                       calls |-> calls1 \o probe.calls \o <<tx>>,
                       chain |-> [c EXCEPT !.textRec[r.ret.address][node] = value]]
                 ELSE [ret |-> None, err |-> "TransactionFailed",
                       calls |-> calls1 \o probe.calls \o <<tx>>, chain |-> c]
            ELSE [ret |-> None, err |-> "UnsupportedFunction",
                  calls |-> calls1 \o probe.calls, chain |-> c]
       ELSE [ret |-> None, err |-> "ResolverNotFound", calls |-> calls1,
             chain |-> c]

(***************************************************************************)
(* Initial states.  The on-chain state is whatever was deployed before the *)
(* operation: each specification starts from every state of a family.      *)
(***************************************************************************)
\* accounts whose balance pays for any number of transactions
Unlimited == -1
\* no wait_for_transaction_receipt has been called
NoWait == [pc |-> "idle"]
WaitIdle == now = 0 /\ mined = FALSE /\ wait = NoWait
NoOp == [op |-> "none"]
\* the callers that may each have one resolution in progress
TaskIds == {1, 2}
NoTask == [pc |-> "idle"]
NoTasks == [t \in TaskIds |-> NoTask]

\* a registry whose forward chain holds the resolvers g and nothing else
ForwardRegistry(g) ==
    [n \in Nodes |-> IF n \in ChainNodes THEN g[n] ELSE EMPTY_ADDR_HEX]
ResolverValues == {EMPTY_ADDR_HEX} \cup Resolvers

\* the addresses a resolver of the forward family answers: none, one in
\* lower case and one in checksum form
ForwardAnswers ==
    {EMPTY_ADDR_HEX, Address(1, "lower"), Address(NumAccounts, "checksum")}

Unset(value) == [r \in Resolvers |-> [n \in Nodes |-> value]]

\* forward resolution: any resolver at any level of the chain, any outcome
\* of the extended-resolution probe, any answer
Init ==
    /\ owner = [n \in Nodes |-> EMPTY_ADDR_HEX]
    /\ resolverOf \in {ForwardRegistry(g) : g \in [ChainNodes -> ResolverValues]}
    /\ supports \in
         {[r \in Resolvers |-> [i \in InterfaceIds |->
              IF i = EXTENDED_RESOLVER_INTERFACE_ID THEN p[r] ELSE "false"]] :
          p \in [Resolvers -> ProbeOutcomes]}
    /\ addrRec \in
         {[r \in Resolvers |-> [n \in Nodes |-> v[r]]] :
          v \in [Resolvers -> ForwardAnswers]}
    /\ nameRec = Unset(Str(<< >>))
    /\ textRec = Unset("")
    /\ abiHasProbe \in
         {[a \in AbiKinds |-> IF a = "RESOLVER" THEN b ELSE FALSE] : b \in BOOLEAN}
    /\ accounts = {}
    /\ last = NoOp
    /\ funds = Unlimited
    /\ WaitIdle
    /\ tasks = NoTasks

(***************************************************************************)
(* Operations.                                                             *)
(***************************************************************************)
\* the names a caller passes: the names of the chain, one written in upper
\* case, and one with an empty label
UpperName == [i \in 1..MaxDepth |-> UpperPool[MaxDepth - i + 1]]
InvalidName == <<"", "eth">>
RawNames == ChainNames \cup {UpperName, InvalidName}

\* The caller is sequential: it starts an operation when it holds no
\* pending result, and takes the result before it starts the next one.
Idle == last = NoOp

TakeResult ==
    /\ last # NoOp
    /\ last' = NoOp
    /\ UNCHANGED <<waitVars, tasks>>
    /\ UNCHANGED chainVars

\* _get_resolver(normal_name, fn_name)
GetResolver(n, fn_name) ==
    /\ Idle
    /\ LET found == _get_resolver(Chain, n, fn_name)
       IN last' = [op |-> "_get_resolver", name |-> n, fn |-> fn_name,
                   ret |-> found.resolver,
                   current_name |-> found.current_name,
                   err |-> "", calls |-> found.calls]
    /\ UNCHANGED <<waitVars, tasks>>
    /\ UNCHANGED chainVars

\* _resolver_supports_interface(resolver, interface_id)
Probe(r, abi, interface_id) ==
    /\ Idle
    /\ LET res == _resolver_supports_interface(
                      Chain, Contract(r, abi), interface_id)
       IN last' = [op |-> "_resolver_supports_interface",
                   resolver |-> Contract(r, abi), interface |-> interface_id,
                   ret |-> res.ret, err |-> res.err, calls |-> res.calls]
    /\ UNCHANGED <<waitVars, tasks>>
    /\ UNCHANGED chainVars

\* address(name)
DoAddress(n) ==
    /\ Idle
    /\ LET res == ENS_address(Chain, n)
       IN last' = [op |-> "address", name |-> n,
                   ret |-> res.ret, err |-> res.err, calls |-> res.calls]
    /\ UNCHANGED <<waitVars, tasks>>
    /\ UNCHANGED chainVars

Next ==
    \/ \E n \in ChainNames, fn_name \in {"addr", "name"} : GetResolver(n, fn_name)
    \/ \E r \in Resolvers, abi \in {"RESOLVER", "REVERSE_RESOLVER"},
          i \in InterfaceIds : Probe(r, abi, i)
    \/ \E n \in RawNames : DoAddress(n)
    \/ TakeResult

Spec == Init /\ [][Next]_vars

(***************************************************************************)
(* Reverse resolution: name(address).                                      *)
(***************************************************************************)
\* a registry with resolver q at the reverse name of every account, resolver
\* qa at addr.reverse, and resolver r at level k of the forward chain (no
\* forward resolver when k = 0)
NameRegistry(q, qa, k, r) ==
    [n \in Nodes |->
        IF \E i \in AccountIds :
              n = normal_name_to_hash(address_to_reverse_domain(Address(i, "lower")))
        THEN q
        ELSE IF n = normal_name_to_hash(REVERSE_REGISTRAR_DOMAIN) THEN qa
        ELSE IF k > 0 /\ n = normal_name_to_hash(Suffix(FullName, k)) THEN r
        ELSE EMPTY_ADDR_HEX]

\* what a reverse record may hold: any name, also one that is not normalized
\* or not valid
NameValues == {Str(n) : n \in RawNames}

InitName ==
    /\ owner = [n \in Nodes |-> EMPTY_ADDR_HEX]
    /\ resolverOf \in
         {NameRegistry(q, qa, k, r) :
            q \in ResolverValues, qa \in {EMPTY_ADDR_HEX, Address(102, "checksum")},
            k \in 0..MaxDepth, r \in Resolvers}
    /\ supports \in
         {[r \in Resolvers |-> [i \in InterfaceIds |->
              IF i = EXTENDED_RESOLVER_INTERFACE_ID THEN p[r] ELSE "false"]] :
          p \in [Resolvers -> ProbeOutcomes]}
    /\ addrRec \in {Unset(v) : v \in ForwardAnswers}
    /\ nameRec \in {Unset(w) : w \in NameValues}
    /\ textRec = Unset("")
    /\ abiHasProbe \in
         {[a \in AbiKinds |->
              IF a = "RESOLVER" THEN b
              ELSE IF a = "REVERSE_RESOLVER" THEN b2 ELSE FALSE] :
          b \in BOOLEAN, b2 \in BOOLEAN}
    /\ accounts = {}
    /\ last = NoOp
    /\ funds = Unlimited
    /\ WaitIdle
    /\ tasks = NoTasks

\* name(address)
DoName(a) ==
    /\ Idle
    /\ LET res == ENS_name(Chain, a)
       IN last' = [op |-> "name", address |-> a,
                   ret |-> res.ret, err |-> res.err, calls |-> res.calls]
    /\ UNCHANGED <<waitVars, tasks>>
    /\ UNCHANGED chainVars

NextName ==
    \/ \E a \in AddressValues \ {EMPTY_ADDR_HEX} : DoName(a)
    \/ TakeResult

SpecName == InitName /\ [][NextName]_vars

(***************************************************************************)
(* Text records: get_text and set_text.                                    *)
(***************************************************************************)
InitText ==
    /\ owner \in {[n \in Nodes |-> o] : o \in {EMPTY_ADDR_HEX, Address(1, "checksum")}}
    /\ resolverOf \in {ForwardRegistry(g) : g \in [ChainNodes -> ResolverValues]}
    /\ supports \in
         {[r \in Resolvers |-> [i \in InterfaceIds |->
              IF i = GET_TEXT_INTERFACE_ID THEN p[r] ELSE "false"]] :
          p \in [Resolvers -> ProbeOutcomes]}
    /\ addrRec = Unset(EMPTY_ADDR_HEX)
    /\ nameRec = Unset(Str(<< >>))
    /\ textRec = Unset("")
    /\ abiHasProbe \in
         {[a \in AbiKinds |-> IF a = "RESOLVER" THEN b ELSE FALSE] : b \in BOOLEAN}
    /\ accounts = {1}
    /\ last = NoOp
    /\ funds = Unlimited
    /\ WaitIdle
    /\ tasks = NoTasks

\* get_text(name, key)
DoGetText(n, key) ==
    /\ Idle
    /\ LET res == ENS_get_text(Chain, n, key)
       IN last' = [op |-> "get_text", name |-> n, key |-> key,
                   ret |-> res.ret, err |-> res.err, calls |-> res.calls]
    /\ UNCHANGED <<waitVars, tasks>>
    /\ UNCHANGED chainVars

\* set_text(name, key, value, transact)
DoSetText(n, key, value, transact) ==
    /\ Idle
    /\ LET res == ENS_set_text(Chain, n, key, value, transact)
       IN /\ last' = [op |-> "set_text", name |-> n, key |-> key,
                      value |-> value, transact |-> transact,
                      ret |-> res.ret, err |-> res.err, calls |-> res.calls]
          /\ textRec' = res.chain.textRec
    /\ UNCHANGED <<waitVars, tasks>>
    /\ UNCHANGED <<owner, resolverOf, supports, addrRec, nameRec, abiHasProbe,
                   accounts, funds>>

NextText ==
    \/ \E n \in RawNames, key \in TextKeys : DoGetText(n, key)
    \/ \E n \in RawNames, key \in TextKeys, value \in {"v1"},
          transact \in {TxParams(None), TxParams(Address(NumAccounts, "checksum"))} :
          DoSetText(n, key, value, transact)
    \/ TakeResult

SpecText == InitText /\ [][NextText]_vars

(***************************************************************************)
(* Ownership: _first_owner, _assert_control, _claim_ownership and          *)
(* setup_owner.  An operation that sends transactions returns, with its    *)
(* result, the chain as it is after the operation.                         *)
(***************************************************************************)
\* the `default` sentinel of ens.utils, the value of an argument not given
Default == [k |-> "default"]

\* Python truth of a value: None and '' are false
Truthy(v) == v # None /\ v # Str(<< >>)

OwnerValues == {EMPTY_ADDR_HEX} \cup {Address(i, "checksum") : i \in AccountIds}

\* a transaction configuration that also sets 'gas', so that web3 does not
\* estimate the gas before it sends the transaction
TxParamsGas(from) == [k |-> "dict", from |-> from, gas |-> 100000]
HasGas(transact) == "gas" \in DOMAIN transact

\* What happens to a transaction sent with `transact` that the called
\* contract accepts only if `allowed`: the node refuses to sign for an account
\* that is not its own and a transaction the sender cannot pay for; a
\* transaction the contract rejects fails at gas estimation, unless 'gas' is
\* given: then it is mined and reverts.
SendOutcome(c, allowed, transact) ==
    IF ~(transact.from.k = "address" /\ transact.from.id \in c.accounts)
    THEN "raised"
    ELSE IF c.funds = 0 THEN "raised"
    ELSE IF allowed THEN "applied"
    ELSE IF HasGas(transact) THEN "reverted"
    ELSE "raised"

\* the chain after a transaction was accepted by the node: the sender has
\* paid for it
Spend(c) == IF c.funds > 0 THEN [c EXCEPT !.funds = @ - 1] ELSE c

Result(v, e, calls, c) == [ret |-> v, err |-> e, calls |-> calls, chain |-> c]

\* Then(v, Rest): the value of Rest at v, the result of a step that is
\* taken once and whose result the rest of the method goes on from
Then(v, Rest(_)) == CHOOSE r \in {Rest(x) : x \in {v}} : TRUE

\* ens.utils.address_in(account, self.w3.eth.accounts)
address_in(account, accts) == account.k = "address" /\ account.id \in accts

\* an _assert_control that accepts every account
_assert_control_always(c, account) ==
    [ok |-> TRUE, calls |-> <<Call(None, "eth_accounts", << >>, None)>>]

\* ENS._assert_control: whether control is asserted, and the read it takes
_assert_control(c, account) ==
    [ok |-> address_in(account, c.accounts),
     calls |-> <<Call(None, "eth_accounts", << >>, None)>>]

\* ENS._first_owner: the loop over the pieces of a non-empty name
\* a loop that lists the unowned labels from the least specific one
RECURSIVE _first_owner_loop_prepends(_, _, _, _, _, _)
_first_owner_loop_prepends(c, pieces, own, unowned, name, calls) ==
    IF pieces # << >> /\ is_none_or_zero_address(own)
    THEN LET name1 == pieces
             node == normal_name_to_hash(name1)
             owner1 == c.owner[node]
             calls1 == Append(calls, Call(ENS_ADDR, "owner", node, None))
         IN IF is_none_or_zero_address(owner1)
            THEN _first_owner_loop_prepends(c, Tail(pieces), owner1,
                                            <<Head(pieces)>> \o unowned,
                                            name1, calls1)
            ELSE _first_owner_loop_prepends(c, pieces, owner1, unowned, name1,
                                            calls1)
    ELSE [owner |-> own, unowned |-> unowned, name |-> name, calls |-> calls]

RECURSIVE _first_owner_loop(_, _, _, _, _, _)
_first_owner_loop(c, pieces, own, unowned, name, calls) ==
    IF pieces # << >> /\ is_none_or_zero_address(own)
    THEN LET name1 == pieces
             node == normal_name_to_hash(name1)
             owner1 == c.owner[node]
             calls1 == Append(calls, Call(ENS_ADDR, "owner", node, None))
         IN IF is_none_or_zero_address(owner1)
            THEN _first_owner_loop(c, Tail(pieces), owner1,
                                   Append(unowned, Head(pieces)), name1, calls1)
            ELSE _first_owner_loop(c, pieces, owner1, unowned, name1, calls1)
    ELSE [owner |-> own, unowned |-> unowned, name |-> name, calls |-> calls]

\* ENS._first_owner; ''.split('.') is [''], so for the empty name the
\* loop reads the owner of the root once and, when there is none, lists
\* the empty label as unowned
_first_owner(c, name) ==
    IF normalize_name(name) = << >>
    THEN LET node == normal_name_to_hash(<< >>)
         IN [owner |-> c.owner[node],
             unowned |-> IF is_none_or_zero_address(c.owner[node])
                         THEN <<"">> ELSE << >>,
             name |-> << >>,
             calls |-> <<Call(ENS_ADDR, "owner", node, None)>>]
    ELSE _first_owner_loop(c, normalize_name(name), None, << >>, name, << >>)

\* the setSubnodeOwner transaction of one label
SubnodeTx(owned, label, new_owner, from) ==
    Transact(ENS_ADDR, "setSubnodeOwner", normal_name_to_hash(owned),
             [k |-> "subnode", label |-> label_to_hash(label),
              owner |-> new_owner], from)

\* a claim loop that claims every label under the owned ancestor
RECURSIVE _claim_loop_same_parent(_, _, _, _, _, _)
_claim_loop_same_parent(c, new_owner, labels, owned, transact, calls) ==
    IF labels = << >> THEN Result(None, "", calls, c)
    ELSE LET label == labels[Len(labels)]
             node == normal_name_to_hash(owned)
             calls1 == Append(calls,
                              SubnodeTx(owned, label, new_owner, transact.from))
             outcome == SendOutcome(c, c.owner[node] = transact.from, transact)
             subnode == Append(node, label_to_hash(label))
             c1 == Spend(IF outcome = "applied" /\ subnode \in DOMAIN c.owner
                         THEN [c EXCEPT !.owner[subnode] = new_owner] ELSE c)
         IN IF outcome = "raised"
            THEN Result(None, "TransactionFailed", calls1, c)
            ELSE _claim_loop_same_parent(c1, new_owner,
                                         SubSeq(labels, 1, Len(labels) - 1),
                                         owned, transact, calls1)

\* a claim loop that goes on with the next label after a transaction failed
RECURSIVE _claim_loop_goes_on(_, _, _, _, _, _)
_claim_loop_goes_on(c, new_owner, labels, owned, transact, calls) ==
    IF labels = << >> THEN Result(None, "", calls, c)
    ELSE LET label == labels[Len(labels)]
             node == normal_name_to_hash(owned)
             calls1 == Append(calls,
                              SubnodeTx(owned, label, new_owner, transact.from))
             outcome == SendOutcome(c, c.owner[node] = transact.from, transact)
             subnode == Append(node, label_to_hash(label))
             c1 == Spend(IF outcome = "applied" /\ subnode \in DOMAIN c.owner
                         THEN [c EXCEPT !.owner[subnode] = new_owner] ELSE c)
         IN _claim_loop_goes_on(IF outcome = "raised" THEN c ELSE c1,
                                new_owner, SubSeq(labels, 1, Len(labels) - 1),
                                <<label>> \o owned, transact, calls1)

\* ENS._claim_ownership, lines 501-507: the loop over reversed(unowned);
\* `labels` are the labels still to claim, in the order they were found
RECURSIVE _claim_loop(_, _, _, _, _, _)
_claim_loop(c, new_owner, labels, owned, transact, calls) ==
    IF labels = << >> THEN Result(None, "", calls, c)
    ELSE LET label == labels[Len(labels)]
             node == normal_name_to_hash(owned)
             calls1 == Append(calls,
                              SubnodeTx(owned, label, new_owner, transact.from))
             outcome == SendOutcome(c, c.owner[node] = transact.from, transact)
             subnode == Append(node, label_to_hash(label))
             c1 == Spend(IF outcome = "applied" /\ subnode \in DOMAIN c.owner
                         THEN [c EXCEPT !.owner[subnode] = new_owner] ELSE c)
         IN IF outcome = "raised"
            THEN Result(None, "TransactionFailed", calls1, c)
            ELSE _claim_loop(c1, new_owner, SubSeq(labels, 1, Len(labels) - 1),
                             <<label>> \o owned, transact, calls1)

\* ENS._claim_ownership
_claim_ownership(c, new_owner, unowned, owned, old_owner, transact) ==
    LET transact1 ==
            [transact EXCEPT
                !.from = IF Truthy(old_owner) THEN old_owner ELSE new_owner]
    IN _claim_loop(c, new_owner, unowned, owned, transact1, << >>)

\* a setup_owner without the test "current_owner == new_owner"
ENS_setup_owner_always_claims(c, name, new_owner, transact) ==
    IF ~is_valid_name(name) THEN Result(None, "InvalidName", << >>, c)
    ELSE
    LET first == _first_owner(c, name)
        super_owner == first.owner
        target == IF new_owner = Default THEN super_owner
                  ELSE IF ~Truthy(new_owner) THEN EMPTY_ADDR_HEX
                  ELSE to_checksum_address(new_owner)
        current == ENS_owner(c, name)
        calls1 == first.calls \o current.calls
        control == _assert_control(c, super_owner)
        calls2 == calls1 \o control.calls
        claim == _claim_ownership(c, target, first.unowned, first.name,
                                  super_owner, transact)
    IN IF ~control.ok
       THEN Result(None, "UnauthorizedError", calls2, c)
       ELSE IF claim.err # ""
       THEN Result(None, claim.err, calls2 \o claim.calls, claim.chain)
       ELSE Result(target, "", calls2 \o claim.calls, claim.chain)

\* a setup_owner that sends the claims before it asserts control
ENS_setup_owner_claims_first(c, name, new_owner, transact) ==
    IF ~is_valid_name(name) THEN Result(None, "InvalidName", << >>, c)
    ELSE
    LET first == _first_owner(c, name)
        super_owner == first.owner
        target == IF new_owner = Default THEN super_owner
                  ELSE IF ~Truthy(new_owner) THEN EMPTY_ADDR_HEX
                  ELSE to_checksum_address(new_owner)
        current == ENS_owner(c, name)
        calls1 == first.calls \o current.calls
        claim == _claim_ownership(c, target, first.unowned, first.name,
                                  super_owner, transact)
        control == _assert_control(c, super_owner)
        calls2 == calls1 \o claim.calls \o control.calls
    IN IF target = EMPTY_ADDR_HEX /\ ~Truthy(current.ret)
       THEN Result(None, "", calls1, c)
       ELSE IF current.ret = target
       THEN Result(current.ret, "", calls1, c)
       ELSE IF ~control.ok
       THEN Result(None, "UnauthorizedError", calls2, claim.chain)
       ELSE IF claim.err # ""
       THEN Result(None, claim.err, calls1 \o claim.calls, claim.chain)
       ELSE Result(target, "", calls2, claim.chain)

\* ENS.setup_owner, for a non-empty name
ENS_setup_owner(c, name, new_owner, transact) ==
    IF ~is_valid_name(name) THEN Result(None, "InvalidName", << >>, c)
    ELSE
    LET first == _first_owner(c, name)
        super_owner == first.owner
        target == IF new_owner = Default THEN super_owner
                  ELSE IF ~Truthy(new_owner) THEN EMPTY_ADDR_HEX
                  ELSE to_checksum_address(new_owner)
        current == ENS_owner(c, name)
        calls1 == first.calls \o current.calls
        control == _assert_control(c, super_owner)
        calls2 == calls1 \o control.calls
        claim == _claim_ownership(c, target, first.unowned, first.name,
                                  super_owner, transact)
    IN IF target = EMPTY_ADDR_HEX /\ ~Truthy(current.ret)
       THEN Result(None, "", calls1, c)
       ELSE IF current.ret = target
       THEN Result(current.ret, "", calls1, c)
       ELSE IF ~control.ok
       THEN Result(None, "UnauthorizedError", calls2, c)
       ELSE IF claim.err # ""
       THEN Result(None, claim.err, calls2 \o claim.calls, claim.chain)
       ELSE Result(target, "", calls2 \o claim.calls, claim.chain)

\* any owner at any level of the forward chain, any set of accounts
OwnerRegistry(g) ==
    [n \in Nodes |-> IF n \in ChainNodes THEN g[n] ELSE EMPTY_ADDR_HEX]

InitOwner ==
    /\ owner \in {OwnerRegistry(g) : g \in [ChainNodes -> OwnerValues]}
    /\ resolverOf = [n \in Nodes |-> EMPTY_ADDR_HEX]
    /\ supports = [r \in Resolvers |-> [i \in InterfaceIds |-> "false"]]
    /\ addrRec = Unset(EMPTY_ADDR_HEX)
    /\ nameRec = Unset(Str(<< >>))
    /\ textRec = Unset("")
    /\ abiHasProbe = [a \in AbiKinds |-> a = "RESOLVER"]
    /\ accounts \in SUBSET AccountIds
    /\ last = NoOp
    /\ funds = Unlimited
    /\ WaitIdle
    /\ tasks = NoTasks

\* the names, owners and transaction configurations a caller passes
SetupNames == RawNames \ {<< >>}
NewOwners ==
    {Default, None, Address(1, "lower"), Address(NumAccounts, "checksum")}
Transacts ==
    {TxParams(None), TxParams(Address(NumAccounts, "checksum")),
     TxParamsGas(None)}

\* what an operation that changes the chain finds before it starts
Pre ==
    [owner |-> owner, resolverOf |-> resolverOf, addrRec |-> addrRec,
     nameRec |-> nameRec, funds |-> funds]

\* setup_owner(name, new_owner, transact)
DoSetupOwner(n, new_owner, transact) ==
    /\ Idle
    /\ \E res \in {ENS_setup_owner(Chain, n, new_owner, transact)} :
          /\ last' = [op |-> "setup_owner", name |-> n, new_owner |-> new_owner,
                      transact |-> transact, pre |-> Pre,
                      ret |-> res.ret, err |-> res.err, calls |-> res.calls]
          /\ owner' = res.chain.owner
          /\ funds' = res.chain.funds
    /\ UNCHANGED <<waitVars, tasks>>
    /\ UNCHANGED <<resolverOf, supports, addrRec, nameRec, textRec, abiHasProbe,
                   accounts>>

NextOwner ==
    \/ \E n \in SetupNames, new_owner \in NewOwners, transact \in Transacts :
          DoSetupOwner(n, new_owner, transact)
    \/ TakeResult

SpecOwner == InitOwner /\ [][NextOwner]_vars

(***************************************************************************)
(* Forward records: _set_resolver and setup_address.                       *)
(***************************************************************************)
is_binary_address(v) == v.k = "address" /\ v.form = "binary"
is_checksum_address(v) == v.k = "address" /\ v.form = "checksum"

\* the setResolver transaction
ResolverTx(namehash, resolver_addr, from) ==
    Transact(ENS_ADDR, "setResolver", namehash, resolver_addr, from)

\* a _set_resolver that sends setResolver whatever the registry holds
_set_resolver_always(c, name, resolver_addr, transact) ==
    LET lookup == is_none_or_zero_address(resolver_addr)
        namehash == normal_name_to_hash(normalize_name(name))
        outcome == SendOutcome(c, c.owner[namehash] = transact.from, transact)
    IN Then(IF lookup THEN ENS_address(c, RESOLVER_ETH)
            ELSE Return(resolver_addr, << >>),
            LAMBDA found :
       LET addr == found.ret
           calls2 == Append(found.calls,
                            ResolverTx(namehash, addr, transact.from))
       IN IF found.err # ""
          THEN Result(None, found.err, found.calls, c)
          ELSE IF ~is_address(addr)
          THEN Result(None, "ValidationError", found.calls, c)
          ELSE IF outcome = "raised"
          THEN Result(None, "TransactionFailed", calls2, c)
          ELSE Result(Contract(addr, "RESOLVER"), "", calls2,
                      Spend(IF outcome = "applied"
                            THEN [c EXCEPT !.resolverOf[namehash] = addr]
                            ELSE c)))

\* ENS._set_resolver; the registry accepts setResolver from the owner of
\* the node, and web3 refuses an argument that is not an address
_set_resolver(c, name, resolver_addr, transact) ==
    LET lookup == is_none_or_zero_address(resolver_addr)
        namehash == normal_name_to_hash(normalize_name(name))
        outcome == SendOutcome(c, c.owner[namehash] = transact.from, transact)
    IN Then(IF lookup THEN ENS_address(c, RESOLVER_ETH)
            ELSE Return(resolver_addr, << >>),
            LAMBDA found :
       LET addr == found.ret
           calls1 == Append(found.calls,
                            Call(ENS_ADDR, "resolver", namehash, None))
           calls2 == Append(calls1, ResolverTx(namehash, addr, transact.from))
       IN IF found.err # ""
          THEN Result(None, found.err, found.calls, c)
          ELSE IF c.resolverOf[namehash] = addr
          THEN Result(Contract(addr, "RESOLVER"), "", calls1, c)
          ELSE IF ~is_address(addr)
          THEN Result(None, "ValidationError", calls1, c)
          ELSE IF outcome = "raised"
          THEN Result(None, "TransactionFailed", calls2, c)
          ELSE Result(Contract(addr, "RESOLVER"), "", calls2,
                      Spend(IF outcome = "applied"
                            THEN [c EXCEPT !.resolverOf[namehash] = addr]
                            ELSE c)))

\* the setAddr transaction
AddrTx(resolver_addr, node, address, from) ==
    Transact(resolver_addr, "setAddr", node, address, from)

\* ENS.setup_address, lines 234-236: the resolver is set, then setAddr is
\* sent; a resolver accepts setAddr from the owner of the node, and an
\* address without code accepts anything and records nothing
_setup_address_write(c, name, address, transact, calls) ==
    Then(_set_resolver(c, name, None, transact), LAMBDA sr :
    LET node == normal_name_to_hash(normalize_name(name))
        calls1 == calls \o sr.calls
        calls2 == Append(calls1,
                         AddrTx(sr.ret.address, node, address, transact.from))
        outcome ==
            SendOutcome(sr.chain,
                        sr.ret.address \in Resolvers
                            => sr.chain.owner[node] = transact.from,
                        transact)
    IN IF sr.err # "" THEN Result(None, sr.err, calls1, sr.chain)
       ELSE IF outcome = "raised"
       THEN Result(None, "TransactionFailed", calls2, sr.chain)
       ELSE Result([k |-> "txhash"], "", calls2,
                   Spend(IF outcome = "applied" /\ sr.ret.address \in Resolvers
                         THEN [sr.chain EXCEPT
                                  !.addrRec[sr.ret.address][node] = address]
                         ELSE sr.chain)))

\* ENS.setup_address, for a non-empty name
ENS_setup_address(c, name, address, transact) ==
    Then(ENS_setup_owner(c, name, Default, transact), LAMBDA so :
    LET owner_addr == so.ret
        control == _assert_control(so.chain, owner_addr)
        calls1 == so.calls \o control.calls
        bad_format ==
            /\ ~is_none_or_zero_address(address)
            /\ address # Default
            /\ ~is_binary_address(address)
            /\ ~is_checksum_address(address)
        address1 == IF is_none_or_zero_address(address) THEN None
                    ELSE IF address = Default THEN owner_addr
                    ELSE IF is_binary_address(address)
                    THEN to_checksum_address(address)
                    ELSE address
        address2 == IF address1 = None THEN EMPTY_ADDR_HEX ELSE address1
    IN IF so.err # "" THEN Result(None, so.err, so.calls, so.chain)
       ELSE IF ~control.ok
       THEN Result(None, "UnauthorizedError", calls1, so.chain)
       ELSE IF bad_format THEN Result(None, "ValueError", calls1, so.chain)
       ELSE Then(ENS_address(so.chain, name), LAMBDA current :
            IF current.err # ""
            THEN Result(None, current.err, calls1 \o current.calls, so.chain)
            ELSE IF current.ret = address1
            THEN Result(None, "", calls1 \o current.calls, so.chain)
            ELSE _setup_address_write(so.chain, name, address2,
                                      [transact EXCEPT !.from = owner_addr],
                                      calls1 \o current.calls)))

\* the forward chain owned by account 1 from level j upwards
OwnedFrom(j) ==
    [n \in Nodes |->
        IF \E k \in j..MaxDepth : n = normal_name_to_hash(Suffix(FullName, k))
        THEN Address(1, "checksum") ELSE EMPTY_ADDR_HEX]

\* resolvers of the name, of its parent and of 'resolver.eth'
AddressRegistry(rn, rp, q) ==
    [n \in Nodes |->
        IF n = normal_name_to_hash(FullName) THEN rn
        ELSE IF n = normal_name_to_hash(parent(FullName)) THEN rp
        ELSE IF n = normal_name_to_hash(RESOLVER_ETH) THEN q
        ELSE EMPTY_ADDR_HEX]

\* every resolver answers d for 'resolver.eth' and v for the other names
AddressRecords(d, v) ==
    [r \in Resolvers |-> [n \in Nodes |->
        IF n = normal_name_to_hash(RESOLVER_ETH) THEN d ELSE v]]

InitAddress ==
    /\ owner \in {OwnedFrom(j) : j \in 1..(MaxDepth + 1)}
    /\ resolverOf \in
         {AddressRegistry(rn, rp, q) :
            rn \in ResolverValues, rp \in {EMPTY_ADDR_HEX, Address(102, "checksum")},
            q \in ResolverValues}
    /\ supports \in
         {[r \in Resolvers |-> [i \in InterfaceIds |->
              IF i = EXTENDED_RESOLVER_INTERFACE_ID THEN p[r] ELSE "false"]] :
          p \in [Resolvers -> ProbeOutcomes]}
    /\ addrRec \in
         {AddressRecords(d, v) :
            d \in {EMPTY_ADDR_HEX, Address(101, "checksum")},
            v \in {EMPTY_ADDR_HEX, Address(NumAccounts, "checksum")}}
    /\ nameRec = Unset(Str(<< >>))
    /\ textRec = Unset("")
    /\ abiHasProbe = [a \in AbiKinds |-> a = "RESOLVER"]
    /\ accounts \in {{1}, {NumAccounts}}
    /\ last = NoOp
    /\ funds = Unlimited
    /\ WaitIdle
    /\ tasks = NoTasks

\* the addresses and transaction configurations a caller of setup_address
\* passes
AddressArgs ==
    {Default, None, EMPTY_ADDR_HEX, Address(1, "binary"),
     Address(NumAccounts, "checksum"), Address(NumAccounts, "lower")}
AddressTransacts == {TxParams(None), TxParams(Address(NumAccounts, "checksum"))}
AddressNames == {FullName, InvalidName}

\* setup_address(name, address, transact)
DoSetupAddress(n, address, transact) ==
    /\ Idle
    /\ \E res \in {ENS_setup_address(Chain, n, address, transact)} :
          /\ last' = [op |-> "setup_address", name |-> n, address |-> address,
                      transact |-> transact, pre |-> Pre,
                      ret |-> res.ret, err |-> res.err, calls |-> res.calls]
          /\ owner' = res.chain.owner
          /\ funds' = res.chain.funds
          /\ resolverOf' = res.chain.resolverOf
          /\ addrRec' = res.chain.addrRec
    /\ UNCHANGED <<waitVars, tasks>>
    /\ UNCHANGED <<supports, nameRec, textRec, abiHasProbe, accounts>>

\* the caller repeats, with the same arguments, a setup_address that returned
DoSetupAddressAgain ==
    /\ last.op = "setup_address"
    /\ last.err = ""
    /\ \E res \in {ENS_setup_address(Chain, last.name, last.address,
                                       last.transact)} :
          /\ last' = [op |-> "setup_address_again", name |-> last.name,
                      address |-> last.address, transact |-> last.transact,
                      pre |-> Pre, ret |-> res.ret, err |-> res.err,
                      calls |-> res.calls]
          /\ owner' = res.chain.owner
          /\ funds' = res.chain.funds
          /\ resolverOf' = res.chain.resolverOf
          /\ addrRec' = res.chain.addrRec
    /\ UNCHANGED <<waitVars, tasks>>
    /\ UNCHANGED <<supports, nameRec, textRec, abiHasProbe, accounts>>

\* the caller resolves the name of a setup_address that returned
DoAddressAfterSetup ==
    /\ last.op = "setup_address"
    /\ last.err = ""
    /\ \E res \in {ENS_address(Chain, last.name)} :
          last' = [op |-> "address_after_setup", name |-> last.name,
                   address |-> last.address, pre |-> last.pre,
                   ret |-> res.ret, err |-> res.err, calls |-> res.calls]
    /\ UNCHANGED <<waitVars, tasks>>
    /\ UNCHANGED chainVars

NextAddress ==
    \/ \E n \in AddressNames, address \in AddressArgs,
          transact \in AddressTransacts : DoSetupAddress(n, address, transact)
    \/ DoSetupAddressAgain
    \/ DoAddressAfterSetup
    \/ \E n \in AddressNames : DoAddress(n)
    \/ TakeResult

SpecAddress == InitAddress /\ [][NextAddress]_vars

(***************************************************************************)
(* Reverse records: _reverse_registrar, _setup_reverse and setup_name.     *)
(***************************************************************************)
\* the reverse registrar contract and the resolver it registers
REVERSE_REGISTRAR == Address(103, "checksum")
REVERSE_DEFAULT_RESOLVER == Address(102, "checksum")

\* ENS._reverse_registrar: the contract at the owner of 'addr.reverse'
_reverse_registrar(c) ==
    LET node == normal_name_to_hash(REVERSE_REGISTRAR_DOMAIN)
    IN Return(Contract(c.owner[node], "REVERSE_REGISTRAR"),
              <<Call(ENS_ADDR, "owner", node, None)>>)

\* a _setup_reverse that sends setName with the 'from' the caller passed
_setup_reverse_keeps_from(c, name, address, transact) ==
    LET registrar == _reverse_registrar(c)
        calls1 == Append(registrar.calls,
                         Transact(registrar.ret.address, "setName", << >>,
                                  Str(<< >>), transact.from))
    IN IF SendOutcome(c, TRUE, transact) = "raised"
       THEN Result(None, "TransactionFailed", calls1, c)
       ELSE Result([k |-> "txhash"], "", calls1, Spend(c))

\* ENS._setup_reverse; the registrar's setName(name), sent from an account,
\* claims the reverse node of that account, registers the registrar's
\* resolver for it and records the name there; an address without code
\* accepts the transaction and records nothing
_setup_reverse(c, name, address, transact) ==
    LET name1 == IF name # None /\ name # << >> THEN normalize_name(name)
                 ELSE << >>
        transact1 == [transact EXCEPT !.from = address]
        registrar == _reverse_registrar(c)
        calls1 == Append(registrar.calls,
                         Transact(registrar.ret.address, "setName", << >>,
                                  Str(name1), address))
        outcome == SendOutcome(c, TRUE, transact1)
        node == normal_name_to_hash(address_to_reverse_domain(address))
        c1 == IF outcome = "applied" /\ registrar.ret.address = REVERSE_REGISTRAR
              THEN [c EXCEPT
                      !.owner[node] = REVERSE_REGISTRAR,
                      !.resolverOf[node] = REVERSE_DEFAULT_RESOLVER,
                      !.nameRec[REVERSE_DEFAULT_RESOLVER][node] = Str(name1)]
              ELSE c
    IN IF outcome = "raised"
       THEN Result(None, "TransactionFailed", calls1, c)
       ELSE Result([k |-> "txhash"], "", calls1, Spend(c1))

\* a setup_name of the empty name that does not assert control
_setup_name_empty_no_check(c, address, transact) ==
    _setup_reverse(c, None, address, transact)

\* ENS.setup_name, lines 261-263: the empty name
_setup_name_empty(c, address, transact) ==
    LET control == _assert_control(c, address)
        reverse == _setup_reverse(c, None, address, transact)
    IN IF ~control.ok
       THEN Result(None, "UnauthorizedError", control.calls, c)
       ELSE Result(reverse.ret, reverse.err, control.calls \o reverse.calls,
                   reverse.chain)

\* a test of the address against the resolution that never fails
address_mismatch_never(address, resolved) == FALSE

\* ENS.setup_name, lines 266-269: the test that raises AddressMismatch;
\* the values are compared as they are written
address_mismatch(address, resolved) ==
    /\ ~is_none_or_zero_address(address)
    /\ Truthy(resolved)
    /\ address # resolved
    /\ resolved # EMPTY_ADDR_HEX

\* ENS.setup_name, lines 264-286: a name that is not empty
_setup_name_named(c, name, address, transact) ==
    Then(ENS_address(c, name), LAMBDA resolved :
    LET mismatch == address_mismatch(address, resolved.ret)
        address1 == IF is_none_or_zero_address(address) THEN resolved.ret
                    ELSE address
        own == ENS_owner(c, name)
        address2 == IF is_none_or_zero_address(address1) THEN own.ret
                    ELSE address1
        calls1 == IF is_none_or_zero_address(address1)
                  THEN resolved.calls \o own.calls ELSE resolved.calls
        address3 == IF is_binary_address(address2)
                    THEN to_checksum_address(address2) ELSE address2
        control == _assert_control(c, address3)
        calls2 == calls1 \o control.calls
    IN IF resolved.err # "" THEN Result(None, resolved.err, resolved.calls, c)
       ELSE IF mismatch THEN Result(None, "AddressMismatch", resolved.calls, c)
       ELSE IF is_none_or_zero_address(address2)
       THEN Result(None, "UnownedName", calls1, c)
       ELSE IF ~is_checksum_address(address3)
       THEN Result(None, "ValueError", calls1, c)
       ELSE IF ~control.ok THEN Result(None, "UnauthorizedError", calls2, c)
       ELSE Then(IF ~Truthy(resolved.ret)
                 THEN ENS_setup_address(c, name, address3, transact)
                 ELSE Result(None, "", << >>, c),
                 LAMBDA forward :
            IF forward.err # ""
            THEN Result(None, forward.err, calls2 \o forward.calls,
                        forward.chain)
            ELSE Then(_setup_reverse(forward.chain, name, address3, transact),
                      LAMBDA reverse :
                 Result(reverse.ret, reverse.err,
                        calls2 \o forward.calls \o reverse.calls,
                        reverse.chain))))

\* ENS.setup_name
ENS_setup_name(c, name, address, transact) ==
    IF name = None \/ name = << >>
    THEN _setup_name_empty(c, address, transact)
    ELSE _setup_name_named(c, name, address, transact)

\* the registry of a chain that has the reverse registrar or not
ReverseOwners(o, registrar) ==
    [n \in Nodes |->
        IF n = normal_name_to_hash(REVERSE_REGISTRAR_DOMAIN) THEN registrar
        ELSE o[n]]

InitReverse ==
    /\ owner \in
         {ReverseOwners(OwnedFrom(j), registrar) :
            j \in 1..(MaxDepth + 1),
            registrar \in {EMPTY_ADDR_HEX, REVERSE_REGISTRAR}}
    /\ resolverOf \in
         {AddressRegistry(rn, EMPTY_ADDR_HEX, Address(101, "checksum")) :
            rn \in ResolverValues}
    /\ supports \in
         {[r \in Resolvers |-> [i \in InterfaceIds |->
              IF i = EXTENDED_RESOLVER_INTERFACE_ID THEN p ELSE "false"]] :
          p \in ProbeOutcomes}
    /\ addrRec \in
         {AddressRecords(Address(101, "checksum"), v) :
            v \in {EMPTY_ADDR_HEX, Address(1, "checksum"),
                   Address(NumAccounts, "checksum")}}
    /\ nameRec = Unset(Str(<< >>))
    /\ textRec = Unset("")
    /\ abiHasProbe = [a \in AbiKinds |-> a \in {"RESOLVER", "REVERSE_RESOLVER"}]
    /\ accounts \in SUBSET AccountIds
    /\ last = NoOp
    /\ funds = Unlimited
    /\ WaitIdle
    /\ tasks = NoTasks

\* the names and addresses a caller of setup_name passes
ReverseNameArgs == {None, << >>, FullName, InvalidName}
ReverseAddressArgs ==
    {None, EMPTY_ADDR_HEX, Address(1, "checksum"), Address(1, "binary"),
     Address(NumAccounts, "checksum"), Address(NumAccounts, "lower")}

\* setup_name(name, address, transact)
DoSetupName(n, address, transact) ==
    /\ Idle
    /\ \E res \in {ENS_setup_name(Chain, n, address, transact)} :
          /\ last' = [op |-> "setup_name", name |-> n, address |-> address,
                      transact |-> transact, pre |-> Pre,
                      ret |-> res.ret, err |-> res.err, calls |-> res.calls]
          /\ owner' = res.chain.owner
          /\ funds' = res.chain.funds
          /\ resolverOf' = res.chain.resolverOf
          /\ addrRec' = res.chain.addrRec
          /\ nameRec' = res.chain.nameRec
    /\ UNCHANGED <<waitVars, tasks>>
    /\ UNCHANGED <<supports, textRec, abiHasProbe, accounts>>

\* name(address) right after a setup_name that returned, for the address
\* that setup_name sent setName from
DoNameAfterSetup ==
    /\ last.op = "setup_name"
    /\ last.err = ""
    /\ \E a \in {last.calls[Len(last.calls)].arg.from} :
       \E res \in {ENS_name(Chain, a)} :
          last' = [op |-> "name_after_setup", name |-> last.name,
                   address |-> a, pre |-> last.pre,
                   ret |-> res.ret, err |-> res.err, calls |-> res.calls]
    /\ UNCHANGED <<waitVars, tasks>>
    /\ UNCHANGED chainVars

NextReverse ==
    \/ \E n \in ReverseNameArgs, address \in ReverseAddressArgs,
          transact \in AddressTransacts : DoSetupName(n, address, transact)
    \/ DoNameAfterSetup
    \/ \E a \in AddressValues \ {EMPTY_ADDR_HEX} : DoName(a)
    \/ TakeResult

SpecReverse == InitReverse /\ [][NextReverse]_vars

\* _first_owner on its own, over every registry of the chain of names, the
\* root included
InitFirstOwner ==
    /\ owner \in
         {[n \in Nodes |->
              IF n \in ChainNodes \cup {normal_name_to_hash(<< >>)}
              THEN g[n] ELSE EMPTY_ADDR_HEX] :
          g \in [ChainNodes \cup {normal_name_to_hash(<< >>)} -> OwnerValues]}
    /\ resolverOf = [n \in Nodes |-> EMPTY_ADDR_HEX]
    /\ supports = [r \in Resolvers |-> [i \in InterfaceIds |-> "false"]]
    /\ addrRec = Unset(EMPTY_ADDR_HEX)
    /\ nameRec = Unset(Str(<< >>))
    /\ textRec = Unset("")
    /\ abiHasProbe = [a \in AbiKinds |-> a = "RESOLVER"]
    /\ accounts = {}
    /\ last = NoOp
    /\ funds = Unlimited
    /\ WaitIdle
    /\ tasks = NoTasks

\* _first_owner(name); a name that fails normalization raises InvalidName
DoFirstOwner(n) ==
    /\ Idle
    /\ IF ~is_valid_name(n)
       THEN last' = [op |-> "_first_owner", name |-> n, ret |-> None,
                     err |-> "InvalidName", calls |-> << >>]
       ELSE \E res \in {_first_owner(Chain, n)} :
               last' = [op |-> "_first_owner", name |-> n,
                        ret |-> [owner |-> res.owner, unowned |-> res.unowned,
                                 owned |-> res.name],
                        err |-> "", calls |-> res.calls]
    /\ UNCHANGED <<waitVars, tasks>>
    /\ UNCHANGED chainVars

NextFirstOwner ==
    \/ \E n \in RawNames : DoFirstOwner(n)
    \/ TakeResult

SpecFirstOwner == InitFirstOwner /\ [][NextFirstOwner]_vars

(***************************************************************************)
(* Transactions that fail: setup_owner and setup_address with accounts     *)
(* that can pay for a few transactions only.                               *)
(***************************************************************************)
MaxFunds == 4

InitFunds ==
    /\ owner \in {OwnedFrom(j) : j \in 1..(MaxDepth + 1)}
    /\ resolverOf \in
         {AddressRegistry(rn, EMPTY_ADDR_HEX, Address(101, "checksum")) :
            rn \in ResolverValues}
    /\ supports = [r \in Resolvers |-> [i \in InterfaceIds |-> "false"]]
    /\ addrRec \in
         {AddressRecords(Address(101, "checksum"), v) :
            v \in {EMPTY_ADDR_HEX, Address(1, "checksum")}}
    /\ nameRec = Unset(Str(<< >>))
    /\ textRec = Unset("")
    /\ abiHasProbe = [a \in AbiKinds |-> a \in {"RESOLVER", "REVERSE_RESOLVER"}]
    /\ accounts \in SUBSET AccountIds
    /\ funds \in 0..MaxFunds
    /\ last = NoOp
    /\ WaitIdle
    /\ tasks = NoTasks

NextFunds ==
    \/ \E new_owner \in NewOwners, transact \in Transacts :
          DoSetupOwner(FullName, new_owner, transact)
    \/ \E address \in AddressArgs, transact \in AddressTransacts :
          DoSetupAddress(FullName, address, transact)
    \/ TakeResult

SpecFunds == InitFunds /\ [][NextFunds]_vars

(***************************************************************************)
(* Names with bad syntax: the five operations that take a name, called     *)
(* with names that fail normalization and with one that passes.            *)
(***************************************************************************)
\* 'a..eth'
InnerInvalidName == <<"a", "", "eth">>
SyntaxNames == {InvalidName, InnerInvalidName, FullName}
SyntaxAddressArgs == {Default, None, Address(1, "checksum")}

\* resolver(name)
DoResolver(n) ==
    /\ Idle
    /\ \E res \in {ENS_resolver(Chain, n)} :
          last' = [op |-> "resolver", name |-> n,
                   ret |-> res.ret, err |-> res.err, calls |-> res.calls]
    /\ UNCHANGED <<waitVars, tasks>>
    /\ UNCHANGED chainVars

NextSyntax ==
    \/ \E n \in SyntaxNames : DoAddress(n)
    \/ \E n \in SyntaxNames : DoResolver(n)
    \/ \E n \in SyntaxNames, new_owner \in SyntaxAddressArgs :
          DoSetupOwner(n, new_owner, TxParams(None))
    \/ \E n \in SyntaxNames, address \in SyntaxAddressArgs :
          DoSetupAddress(n, address, TxParams(None))
    \/ \E n \in SyntaxNames, address \in SyntaxAddressArgs \ {Default} :
          DoSetupName(n, address, TxParams(None))
    \/ TakeResult

SpecSyntax == InitReverse /\ [][NextSyntax]_vars

(***************************************************************************)
(* The three setup operations together, over the chains of the reverse     *)
(* records and every set of controlled accounts.                           *)
(***************************************************************************)
SetupAccounts == {Address(1, "checksum"), Address(NumAccounts, "checksum")}
NextSetup ==
    \/ \E new_owner \in {Default} \cup SetupAccounts,
          transact \in {TxParams(None), TxParamsGas(None)} :
          DoSetupOwner(FullName, new_owner, transact)
    \/ \E address \in {Default} \cup SetupAccounts :
          DoSetupAddress(FullName, address, TxParams(None))
    \/ \E n \in {None, FullName}, address \in {None} \cup SetupAccounts :
          DoSetupName(n, address, TxParams(None))
    \/ TakeResult

SpecSetup == InitReverse /\ [][NextSetup]_vars

(***************************************************************************)
(* Receipts: Eth.wait_for_transaction_receipt and the AsyncEth variant.    *)
(* Time is counted in ticks; a fetch of the receipt takes some ticks, a    *)
(* sleep takes poll_latency ticks.                                         *)
(***************************************************************************)
MaxTimeout == 3
MaxPollLatency == 2
MaxFetchTime == 1
Timeouts == 0..MaxTimeout
PollLatencies == 1..MaxPollLatency
FetchTimes == 0..MaxFetchTime
\* no run of the model gets past this time
MaxClock == MaxTimeout + MaxPollLatency + MaxFetchTime + 1
WaitModes == {"sync", "async"}

\* the receipt the node hands out, marked with the time of the fetch
Receipt(t) == [k |-> "receipt", at |-> t]
\* what _get_transaction_receipt yields: the receipt when the transaction
\* is mined, else a null result or the TransactionNotFound error
FetchOutcomes(m) == IF m THEN {"receipt"} ELSE {"null", "notfound"}
\* an entry of the log of a call: a fetch and what it yielded, or a sleep
\* and how long it lasted, with the time at which it ended
Event(e, v, t) == [e |-> e, v |-> v, at |-> t]

\* Timeout.expire_at
expire_at(w) == w.begun_at + w.timeout

\* Timeout.check at time t: whether it raises
check(w, t) == t > expire_at(w)

\* a loop body that lets TransactionNotFound escape
fetch_receipt_raises(w, outcome, t) ==
    LET events == Append(w.events, Event("fetch", outcome, t))
    IN IF outcome = "notfound"
       THEN [w EXCEPT !.pc = "done", !.err = "TransactionNotFound",
                      !.events = events]
       ELSE IF outcome = "receipt"
       THEN [w EXCEPT !.pc = "done", !.ret = Receipt(t), !.events = events]
       ELSE [w EXCEPT !.pc = "sleep", !.events = events]

\* a loop body that catches every error of the fetch
fetch_receipt_catches_all(w, outcome, t) ==
    LET tx_receipt == IF outcome = "receipt" THEN Receipt(t) ELSE None
        events == Append(w.events, Event("fetch", outcome, t))
    IN IF tx_receipt # None
       THEN [w EXCEPT !.pc = "done", !.ret = tx_receipt, !.events = events]
       ELSE [w EXCEPT !.pc = "sleep", !.events = events]

\* the loop body up to the sleep, eth.py lines 718-723 (478-483): the fetch
\* that ended at time t with `outcome`, and the test of tx_receipt; an
\* error other than TransactionNotFound ("error") is not caught
fetch_receipt(w, outcome, t) ==
    LET tx_receipt == IF outcome = "receipt" THEN Receipt(t) ELSE None
        events == Append(w.events, Event("fetch", outcome, t))
    IN IF outcome = "error"
       THEN [w EXCEPT !.pc = "done", !.err = "FetchError", !.events = events]
       ELSE IF tx_receipt # None
       THEN [w EXCEPT !.pc = "done", !.ret = tx_receipt, !.events = events]
       ELSE [w EXCEPT !.pc = "sleep", !.events = events]

\* a sleep that is skipped: the loop goes straight to the next fetch
timeout_sleep_skipped(w, t) == [w EXCEPT !.pc = "fetch"]

\* a sleep whose deadline test fires a fetch and a poll interval late
timeout_sleep_late(w, t) ==
    LET events == Append(w.events, Event("sleep", w.poll_latency, t))
    IN IF t > expire_at(w) + w.poll_latency + MaxFetchTime
       THEN [w EXCEPT !.pc = "done", !.err = "TimeExhausted",
                      !.events = events]
       ELSE [w EXCEPT !.pc = "fetch", !.events = events]

\* Timeout.sleep(poll_latency), eth.py line 724: time.sleep, which ended
\* at time t, and then the check of the deadline
timeout_sleep(w, t) ==
    LET events == Append(w.events, Event("sleep", w.poll_latency, t))
    IN IF check(w, t)
       THEN [w EXCEPT !.pc = "done", !.err = "TimeExhausted",
                      !.events = events]
       ELSE [w EXCEPT !.pc = "fetch", !.events = events]

\* asyncio.sleep(poll_latency), eth.py line 484, which ended at time t
asyncio_sleep(w, t) ==
    [w EXCEPT !.pc = "fetch",
              !.events = Append(w.events, Event("sleep", w.poll_latency, t))]

\* asyncio.wait_for, eth.py lines 486-494: the deadline passes while the
\* task awaits step e (a fetch or a sleep) that began at time t0; the task
\* is cancelled and TimeExhausted is raised
wait_for_timeout(w, e, t0) ==
    [w EXCEPT !.pc = "done", !.err = "TimeExhausted",
              !.events = Append(w.events,
                    IF e = "fetch" THEN Event(e, "cancelled", expire_at(w))
                    ELSE Event(e, expire_at(w) - t0, expire_at(w)))]

\* a chain on which nothing is registered
InitWait ==
    /\ owner = OwnedFrom(MaxDepth + 1)
    /\ resolverOf = AddressRegistry(EMPTY_ADDR_HEX, EMPTY_ADDR_HEX, EMPTY_ADDR_HEX)
    /\ supports = [r \in Resolvers |-> [i \in InterfaceIds |-> "false"]]
    /\ addrRec = Unset(EMPTY_ADDR_HEX)
    /\ nameRec = Unset(Str(<< >>))
    /\ textRec = Unset("")
    /\ abiHasProbe = [a \in AbiKinds |-> TRUE]
    /\ accounts = {}
    /\ last = NoOp
    /\ funds = Unlimited
    /\ WaitIdle
    /\ tasks = NoTasks

\* wait_for_transaction_receipt(transaction_hash, timeout, poll_latency) is
\* called: Timeout.__enter__ (line 716) or asyncio.wait_for (line 486)
\* takes the time.  asyncio.wait_for with a timeout of 0 may give up before
\* the task has run
StartWait(mode, timeout, poll_latency) ==
    /\ wait = NoWait
    /\ \E pc \in IF mode = "async" /\ timeout <= 0 THEN {"fetch", "done"}
                 ELSE {"fetch"} :
          wait' = [pc |-> pc, mode |-> mode, timeout |-> timeout,
                   poll_latency |-> poll_latency, begun_at |-> now,
                   events |-> << >>, ret |-> None,
                   err |-> IF pc = "done" THEN "TimeExhausted" ELSE ""]
    /\ UNCHANGED <<chainVars, last, tasks, now, mined>>

\* Eth: one fetch of the receipt that takes d ticks
Fetch(d, outcome) ==
    /\ wait.pc = "fetch"
    /\ wait.mode = "sync"
    /\ outcome \in FetchOutcomes(mined)
    /\ now + d <= MaxClock
    /\ now' = now + d
    /\ wait' = fetch_receipt(wait, outcome, now + d)
    /\ UNCHANGED <<chainVars, last, tasks, mined>>

\* Eth: the sleep between two fetches
Sleep ==
    /\ wait.pc = "sleep"
    /\ wait.mode = "sync"
    /\ now + wait.poll_latency <= MaxClock
    /\ now' = now + wait.poll_latency
    /\ wait' = timeout_sleep(wait, now + wait.poll_latency)
    /\ UNCHANGED <<chainVars, last, tasks, mined>>

\* AsyncEth: one fetch of the receipt that would take d ticks; it ends
\* before the deadline, or the deadline comes first
AsyncFetch(d, outcome) ==
    /\ wait.pc = "fetch"
    /\ wait.mode = "async"
    /\ outcome \in FetchOutcomes(mined)
    /\ now + d <= MaxClock
    /\ \/ /\ now + d <= expire_at(wait)
          /\ now' = now + d
          /\ wait' = fetch_receipt(wait, outcome, now + d)
       \/ /\ now + d >= expire_at(wait)
          /\ now' = expire_at(wait)
          /\ wait' = wait_for_timeout(wait, "fetch", now)
    /\ UNCHANGED <<chainVars, last, tasks, mined>>

\* AsyncEth: the sleep between two fetches, or the deadline during it
AsyncSleep ==
    /\ wait.pc = "sleep"
    /\ wait.mode = "async"
    /\ now + wait.poll_latency <= MaxClock
    /\ \/ /\ now + wait.poll_latency <= expire_at(wait)
          /\ now' = now + wait.poll_latency
          /\ wait' = asyncio_sleep(wait, now + wait.poll_latency)
       \/ /\ now + wait.poll_latency >= expire_at(wait)
          /\ now' = expire_at(wait)
          /\ wait' = wait_for_timeout(wait, "sleep", now)
    /\ UNCHANGED <<chainVars, last, tasks, mined>>

\* the transaction is mined
Mine ==
    /\ ~mined
    /\ wait.pc # "done"
    /\ mined' = TRUE
    /\ UNCHANGED <<chainVars, last, tasks, now, wait>>

WaitStep ==
    \/ \E d \in FetchTimes, outcome \in {"receipt", "null", "notfound"} :
          Fetch(d, outcome)
    \/ Sleep
    \/ \E d \in FetchTimes, outcome \in {"receipt", "null", "notfound"} :
          AsyncFetch(d, outcome)
    \/ AsyncSleep

NextWait ==
    \/ \E mode \in WaitModes, timeout \in Timeouts,
          poll_latency \in PollLatencies :
             StartWait(mode, timeout, poll_latency)
    \/ \E d \in FetchTimes, outcome \in {"receipt", "null", "notfound"} :
          Fetch(d, outcome)
    \/ Sleep
    \/ \E d \in FetchTimes, outcome \in {"receipt", "null", "notfound"} :
          AsyncFetch(d, outcome)
    \/ AsyncSleep
    \/ Mine

SpecWait == InitWait /\ [][NextWait]_vars

\* a transaction that is never mined; every fetch and every sleep that has
\* begun ends
NextWaitNeverMined ==
    \/ \E mode \in WaitModes, timeout \in Timeouts,
          poll_latency \in PollLatencies :
             StartWait(mode, timeout, poll_latency)
    \/ \E d \in FetchTimes, outcome \in {"null", "notfound"} :
          Fetch(d, outcome)
    \/ Sleep
    \/ \E d \in FetchTimes, outcome \in {"null", "notfound"} :
          AsyncFetch(d, outcome)
    \/ AsyncSleep

SpecWaitNeverMined ==
    InitWait /\ [][NextWaitNeverMined]_vars /\ WF_vars(WaitStep)

(***************************************************************************)
(* The blocking and the asynchronous wait side by side: both are called    *)
(* with the same timeout and poll interval and meet the same fetches.     *)
(* The script is the sequence of fetches, each with what it yields and     *)
(* the time it takes; it grows when a call makes a fetch that the other    *)
(* has not made yet.  Each call has its own clock.                         *)
(***************************************************************************)
ScriptOutcomes == {"notfound", "null", "receipt", "error"}
\* no call of the side-by-side model makes more fetches than this
MaxFetches == MaxTimeout
FetchesOf(w) == Cardinality({i \in 1..Len(w.events) : w.events[i].e = "fetch"})

\* both calls are made
StartBoth(timeout, poll_latency) ==
    /\ wait = NoWait
    /\ \E pc \in IF timeout <= 0 THEN {"fetch", "done"} ELSE {"fetch"} :
          wait' = [pc |-> "both", script |-> << >>,
                   sync |-> [pc |-> "fetch", mode |-> "sync",
                             timeout |-> timeout,
                             poll_latency |-> poll_latency, begun_at |-> 0,
                             events |-> << >>, ret |-> None, err |-> "",
                             clock |-> 0],
                   async |-> [pc |-> pc, mode |-> "async",
                              timeout |-> timeout,
                              poll_latency |-> poll_latency, begun_at |-> 0,
                              events |-> << >>, ret |-> None,
                              err |-> IF pc = "done" THEN "TimeExhausted"
                                      ELSE "",
                              clock |-> 0]]
    /\ UNCHANGED <<chainVars, last, tasks, now, mined>>

\* the fetch that a call makes next: the one of the script, or a new one
NextFetches(w) ==
    IF FetchesOf(w) < Len(wait.script) THEN {wait.script[FetchesOf(w) + 1]}
    ELSE IF Len(wait.script) < MaxFetches
    THEN [outcome : ScriptOutcomes, d : FetchTimes]
    ELSE {}
Scripted(w, f) ==
    IF FetchesOf(w) < Len(wait.script) THEN wait.script
    ELSE Append(wait.script, f)

\* Eth: a fetch of the blocking call
BothFetch ==
    /\ wait.pc = "both"
    /\ wait.sync.pc = "fetch"
    /\ \E f \in NextFetches(wait.sync) :
          wait' = [wait EXCEPT
                      !.script = Scripted(wait.sync, f),
                      !.sync = [fetch_receipt(wait.sync, f.outcome,
                                              wait.sync.clock + f.d)
                                   EXCEPT !.clock = wait.sync.clock + f.d]]
    /\ UNCHANGED <<chainVars, last, tasks, now, mined>>

\* Eth: a sleep of the blocking call
BothSleep ==
    /\ wait.pc = "both"
    /\ wait.sync.pc = "sleep"
    /\ wait' = [wait EXCEPT
                   !.sync = [timeout_sleep(wait.sync, wait.sync.clock
                                                + wait.sync.poll_latency)
                                EXCEPT !.clock = wait.sync.clock
                                                + wait.sync.poll_latency]]
    /\ UNCHANGED <<chainVars, last, tasks, now, mined>>

\* AsyncEth: a fetch of the asynchronous call, or the deadline during it;
\* the asynchronous call is followed once the blocking one has ended
BothAsyncFetch ==
    /\ wait.pc = "both"
    /\ wait.sync.pc = "done"
    /\ wait.async.pc = "fetch"
    /\ \E f \in NextFetches(wait.async) :
          \/ /\ wait.async.clock + f.d <= expire_at(wait.async)
             /\ wait' = [wait EXCEPT
                            !.script = Scripted(wait.async, f),
                            !.async = [fetch_receipt(wait.async, f.outcome,
                                                     wait.async.clock + f.d)
                                          EXCEPT !.clock = wait.async.clock + f.d]]
          \/ /\ wait.async.clock + f.d >= expire_at(wait.async)
             /\ wait' = [wait EXCEPT
                            !.script = Scripted(wait.async, f),
                            !.async = [wait_for_timeout(wait.async, "fetch",
                                                        wait.async.clock)
                                          EXCEPT !.clock = expire_at(wait.async)]]
    /\ UNCHANGED <<chainVars, last, tasks, now, mined>>

\* AsyncEth: a sleep of the asynchronous call, or the deadline during it
BothAsyncSleep ==
    /\ wait.pc = "both"
    /\ wait.sync.pc = "done"
    /\ wait.async.pc = "sleep"
    /\ \/ /\ wait.async.clock + wait.async.poll_latency <= expire_at(wait.async)
          /\ wait' = [wait EXCEPT
                         !.async = [asyncio_sleep(wait.async, wait.async.clock
                                                    + wait.async.poll_latency)
                                       EXCEPT !.clock = wait.async.clock
                                                    + wait.async.poll_latency]]
       \/ /\ wait.async.clock + wait.async.poll_latency >= expire_at(wait.async)
          /\ wait' = [wait EXCEPT
                         !.async = [wait_for_timeout(wait.async, "sleep",
                                                     wait.async.clock)
                                       EXCEPT !.clock = expire_at(wait.async)]]
    /\ UNCHANGED <<chainVars, last, tasks, now, mined>>

\* both results are taken
TakeBoth ==
    /\ wait.pc = "both"
    /\ wait.sync.pc = "done"
    /\ wait.async.pc = "done"
    /\ wait' = NoWait
    /\ UNCHANGED <<chainVars, last, tasks, now, mined>>

NextWaitBoth ==
    \/ \E timeout \in Timeouts, poll_latency \in PollLatencies :
          StartBoth(timeout, poll_latency)
    \/ BothFetch
    \/ BothSleep
    \/ BothAsyncFetch
    \/ BothAsyncSleep
    \/ TakeBoth

SpecWaitBoth == InitWait /\ [][NextWaitBoth]_vars

(***************************************************************************)
(* ENS.parent on its own: applied to a name, and again to its result.      *)
(***************************************************************************)
ParentLabels == {"a", "b", "eth", "A"}
ParentNames == UNION {[1..n -> ParentLabels] : n \in 0..MaxDepth}

\* parent(name)
DoParent(n) ==
    /\ Idle
    /\ last' = [op |-> "parent", name |-> n, arg |-> n, steps |-> 1,
                ret |-> parent(n), err |-> "", calls |-> << >>]
    /\ UNCHANGED <<waitVars, tasks>>
    /\ UNCHANGED chainVars

\* parent(result of the previous parent), up to once after '' was reached
DoParentAgain ==
    /\ last.op = "parent"
    /\ last.steps <= Len(last.name)
    /\ last' = [last EXCEPT !.arg = last.ret, !.steps = @ + 1,
                            !.ret = parent(last.ret)]
    /\ UNCHANGED <<waitVars, tasks>>
    /\ UNCHANGED chainVars

NextParent ==
    \/ \E n \in ParentNames : DoParent(n)
    \/ DoParentAgain
    \/ TakeResult

SpecParent == InitWait /\ [][NextParent]_vars

(***************************************************************************)
(* Resolution step by step.  Each read operation is a sequence of RPC      *)
(* round trips; between two of them another caller's operation may run     *)
(* (threads, or tasks of a cooperative scheduler), and the chain may       *)
(* change.  A task holds the local variables of one call in progress:      *)
(* normal_name, current_name and resolver of _get_resolver and _resolve,   *)
(* the call shape chosen after the probe, and the calls issued so far.     *)
(***************************************************************************)
\* the operation alone, against one state of the chain
Alone(c, op, arg, key) ==
    IF op = "address" THEN ENS_address(c, arg)
    ELSE IF op = "name" THEN ENS_name(c, arg)
    ELSE IF op = "resolver" THEN ENS_resolver(c, arg)
    ELSE ENS_get_text(c, arg, key)

\* the local variables at the start of a call
NewTask(op, arg, key) ==
    [pc |-> "start", op |-> op, arg |-> arg, key |-> key, phase |-> 1,
     fn_name |-> IF op = "name" THEN "name" ELSE "addr",
     normal_name |-> << >>, current_name |-> << >>, resolver |-> None,
     branch |-> "none", rev |-> None, ret |-> None, err |-> "",
     calls |-> << >>, during |-> {}]

\* the call returns v or raises e
Done(task, v, e) == [task EXCEPT !.pc = "done", !.ret = v, !.err = e]

RECURSIVE Conclude(_, _)

\* _get_resolver found no resolver (line 541): resolver returns None,
\* get_text raises (line 341), _resolve returns None (lines 439-440)
NotFound(task) ==
    IF task.op = "resolver" THEN Done(task, None, "")
    ELSE IF task.op = "get_text" THEN Done(task, None, "ResolverNotFound")
    ELSE Conclude(task, None)

\* the head of the loop of _get_resolver (lines 538-541)
Walk(task) ==
    IF is_empty_name(task.current_name) THEN NotFound(task)
    ELSE [task EXCEPT !.pc = "locate"]

\* normalize_name and the entry of _get_resolver (lines 436-438, 533)
Enter(task, name) ==
    IF ~is_valid_name(name) THEN Done(task, None, "InvalidName")
    ELSE Walk([task EXCEPT !.normal_name = normalize_name(name),
                           !.current_name = normalize_name(name)])

\* _resolve returned value: address returns it; name (lines 168-170) goes
\* on with address(name) when it is a name, and compares the address found
Conclude(task, value) ==
    IF task.op = "address" THEN Done(task, value, "")
    ELSE IF task.phase = 1
    THEN IF value.k = "str"
         THEN Enter([task EXCEPT !.phase = 2, !.rev = value,
                                 !.fn_name = "addr"], value.name)
         ELSE Done(task, None, "")
    ELSE Done(task, IF to_checksum_address(task.arg) = value
                    THEN task.rev ELSE None, "")

\* a resolver was found (lines 544-546): resolver returns it, the others
\* go on to the probe
Found(task) ==
    IF task.op = "resolver" THEN Done(task, task.resolver, "")
    ELSE [task EXCEPT !.pc = "probe"]

\* a step of the walk that gives up at the first name without a resolver
task_locate_no_walk(c, task) ==
    LET node == normal_name_to_hash(task.current_name)
        resolver_addr == c.resolverOf[node]
        t1 == [task EXCEPT
                  !.calls = Append(@, Call(ENS_ADDR, "resolver", node, None))]
    IN IF ~is_none_or_zero_address(resolver_addr)
       THEN Found([t1 EXCEPT
                      !.resolver = _type_aware_resolver(resolver_addr,
                                                        task.fn_name)])
       ELSE NotFound(t1)

\* one iteration of the loop of _get_resolver (lines 543-549): the read of
\* the registry for current_name
task_locate(c, task) ==
    LET node == normal_name_to_hash(task.current_name)
        resolver_addr == c.resolverOf[node]
        t1 == [task EXCEPT
                  !.calls = Append(@, Call(ENS_ADDR, "resolver", node, None))]
    IN IF ~is_none_or_zero_address(resolver_addr)
       THEN Found([t1 EXCEPT
                      !.resolver = _type_aware_resolver(resolver_addr,
                                                        task.fn_name)])
       ELSE Walk([t1 EXCEPT !.current_name = parent(task.current_name)])

\* the probe of the resolver found and the choice it decides: the call
\* shape of _resolve (lines 444, 457, 463), whether get_text goes on
\* (lines 337-340)
task_probe(c, task) ==
    LET id == IF task.op = "get_text" THEN GET_TEXT_INTERFACE_ID
              ELSE EXTENDED_RESOLVER_INTERFACE_ID
    IN Then(_resolver_supports_interface(c, task.resolver, id),
            LAMBDA probe :
       LET t1 == [task EXCEPT !.calls = @ \o probe.calls]
           branch == _resolve_branch(probe.ret, task.normal_name,
                                     task.current_name)
       IN IF probe.err # "" THEN Done(t1, None, probe.err)
          ELSE IF task.op = "get_text"
          THEN IF probe.ret THEN [t1 EXCEPT !.pc = "field", !.branch = "text"]
               ELSE Done(t1, None, "UnsupportedFunction")
          ELSE IF branch = "none" THEN Conclude(t1, None)
          ELSE [t1 EXCEPT !.pc = "field", !.branch = branch])

\* a field call that looks the resolver of the name up again
task_field_rereads(c, task) ==
    LET node == normal_name_to_hash(task.normal_name)
        again == _get_resolver(c, task.normal_name, task.fn_name).resolver
        resolver == IF again = None THEN task.resolver ELSE again
    IN Then(IF task.branch = "extended"
            THEN _resolve_extended(c, resolver, task.normal_name, node,
                                   task.fn_name)
            ELSE _resolve_direct(c, resolver, node, task.fn_name),
            LAMBDA res :
                Conclude([task EXCEPT !.calls = @ \o res.calls], res.ret))

\* the call of the resolver found, in the shape chosen: resolve (lines
\* 445-456), the field function (lines 458-462), text (line 338)
task_field(c, task) ==
    LET node == normal_name_to_hash(task.normal_name)
    IN IF task.branch = "text"
       THEN Done([task EXCEPT
                     !.calls = Append(@, Call(task.resolver.address, "text",
                                              node,
                                              [k |-> "key", key |-> task.key]))],
                 [k |-> "text",
                  value |-> c.textRec[task.resolver.address][node]], "")
       ELSE Then(IF task.branch = "extended"
                 THEN _resolve_extended(c, task.resolver, task.normal_name,
                                        node, task.fn_name)
                 ELSE _resolve_direct(c, task.resolver, node, task.fn_name),
                 LAMBDA res :
                     Conclude([task EXCEPT !.calls = @ \o res.calls], res.ret))

\* a chain with resolver R1 at level k of the forward chain, resolver q at
\* the reverse names, any outcome of the probes, and records set or not
R1 == Address(101, "checksum")
R2 == Address(102, "checksum")
InitTasks ==
    /\ owner = [n \in Nodes |-> EMPTY_ADDR_HEX]
    /\ resolverOf \in
         {NameRegistry(q, EMPTY_ADDR_HEX, k, R1) :
            q \in {EMPTY_ADDR_HEX, R2}, k \in 0..MaxDepth}
    /\ supports \in
         {[r \in Resolvers |-> [i \in InterfaceIds |-> p[r]]] :
          p \in [Resolvers -> {"true", "false"}]}
    /\ addrRec \in {Unset(v) : v \in {EMPTY_ADDR_HEX, Address(1, "lower")}}
    /\ nameRec = Unset(Str(FullName))
    /\ textRec = Unset("t")
    /\ abiHasProbe = [a \in AbiKinds |-> TRUE]
    /\ accounts = {}
    /\ last = NoOp
    /\ funds = Unlimited
    /\ WaitIdle
    /\ tasks = NoTasks

InFlight == {t \in TaskIds : tasks[t].pc # "idle"}
Running == {t \in TaskIds : tasks[t].pc \notin {"idle", "done"}}

\* the calls a caller makes
TaskCalls ==
    {<<"address", FullName>>, <<"address", UpperName>>,
     <<"address", InvalidName>>, <<"name", Address(1, "checksum")>>,
     <<"resolver", FullName>>, <<"get_text", FullName>>}

\* caller t calls address(name), name(address), resolver(name) or
\* get_text(name, key): the call runs up to its first RPC; `during` notes
\* the callers whose call is between two RPCs at that moment
Begin(t, op, arg, key) ==
    /\ tasks[t].pc = "idle"
    /\ tasks' = [tasks EXCEPT ![t] =
                    Enter([NewTask(op, arg, key) EXCEPT !.during = Running],
                          IF op = "name" THEN address_to_reverse_domain(arg)
                          ELSE arg)]
    /\ UNCHANGED <<waitVars, last>>
    /\ UNCHANGED chainVars

\* the registry read of caller t returns
LocateStep(t) ==
    /\ tasks[t].pc = "locate"
    /\ tasks' = [tasks EXCEPT ![t] = task_locate(Chain, tasks[t])]
    /\ UNCHANGED <<waitVars, last>>
    /\ UNCHANGED chainVars

\* the probe of caller t returns
ProbeStep(t) ==
    /\ tasks[t].pc = "probe"
    /\ tasks' = [tasks EXCEPT ![t] = task_probe(Chain, tasks[t])]
    /\ UNCHANGED <<waitVars, last>>
    /\ UNCHANGED chainVars

\* the call of the resolver of caller t returns
FieldStep(t) ==
    /\ tasks[t].pc = "field"
    /\ tasks' = [tasks EXCEPT ![t] = task_field(Chain, tasks[t])]
    /\ UNCHANGED <<waitVars, last>>
    /\ UNCHANGED chainVars

\* caller t takes the result
TakeTask(t) ==
    /\ tasks[t].pc = "done"
    /\ tasks' = [tasks EXCEPT ![t] = NoTask]
    /\ UNCHANGED <<waitVars, last>>
    /\ UNCHANGED chainVars

\* another party sets the resolver of a name of the chain in the registry
SetResolver(n, r) ==
    /\ resolverOf[normal_name_to_hash(n)] # r
    /\ resolverOf' = [resolverOf EXCEPT ![normal_name_to_hash(n)] = r]
    /\ UNCHANGED <<waitVars, last, tasks>>
    /\ UNCHANGED <<owner, supports, addrRec, nameRec, textRec, abiHasProbe,
                   accounts, funds>>

\* a resolver's answer to supportsInterface changes (a proxy is upgraded)
SetSupport(r, i, p) ==
    /\ supports[r][i] # p
    /\ supports' = [supports EXCEPT ![r][i] = p]
    /\ UNCHANGED <<waitVars, last, tasks>>
    /\ UNCHANGED <<owner, resolverOf, addrRec, nameRec, textRec, abiHasProbe,
                   accounts, funds>>

\* a change of the registry while no call is in progress
ChangeBetweenCalls ==
    /\ InFlight = {}
    /\ \E r \in ResolverValues : SetResolver(FullName, r)

\* two callers whose calls interleave at every RPC; the chain changes only
\* between calls
NextTasks ==
    \/ \E t \in TaskIds, call \in TaskCalls : Begin(t, call[1], call[2], "url")
    \/ \E t \in TaskIds : LocateStep(t)
    \/ \E t \in TaskIds : ProbeStep(t)
    \/ \E t \in TaskIds : FieldStep(t)
    \/ \E t \in TaskIds : TakeTask(t)
    \/ ChangeBetweenCalls

SpecTasks == InitTasks /\ [][NextTasks]_vars

\* a chain where the two resolvers may answer different addresses
InitRace ==
    /\ owner = [n \in Nodes |-> EMPTY_ADDR_HEX]
    /\ resolverOf \in
         {NameRegistry(EMPTY_ADDR_HEX, EMPTY_ADDR_HEX, k, R1) : k \in 0..MaxDepth}
    /\ supports \in
         {[r \in Resolvers |-> [i \in InterfaceIds |->
              IF i = EXTENDED_RESOLVER_INTERFACE_ID THEN p[r] ELSE "false"]] :
          p \in [Resolvers -> {"true", "false"}]}
    /\ addrRec \in
         {[r \in Resolvers |-> [n \in Nodes |-> v[r]]] :
          v \in [Resolvers -> ForwardAnswers]}
    /\ nameRec = Unset(Str(<< >>))
    /\ textRec = Unset("")
    /\ abiHasProbe = [a \in AbiKinds |-> TRUE]
    /\ accounts = {}
    /\ last = NoOp
    /\ funds = Unlimited
    /\ WaitIdle
    /\ tasks = NoTasks

\* a change of the chain at any moment of a call; the caller takes a
\* result before the chain changes again
ChangeDuringCall ==
    /\ \A t \in TaskIds : tasks[t].pc # "done"
    /\ \/ \E n \in {FullName, Suffix(FullName, 2)}, r \in ResolverValues :
             SetResolver(n, r)
       \/ \E r \in Resolvers, p \in {"true", "false"} :
             SetSupport(r, EXTENDED_RESOLVER_INTERFACE_ID, p)

\* one caller of address(name), and another party that changes the chain
NextRace ==
    \/ \E n \in {FullName, Suffix(FullName, 2)} : Begin(1, "address", n, "url")
    \/ LocateStep(1)
    \/ ProbeStep(1)
    \/ FieldStep(1)
    \/ TakeTask(1)
    \/ ChangeDuringCall

SpecRace == InitRace /\ [][NextRace]_vars

(***************************************************************************)
(* The read operations together: address, name, resolver, reverser, owner  *)
(* and get_text, over chains with owners, forward and reverse resolvers    *)
(* and records.                                                            *)
(***************************************************************************)
InitReads ==
    /\ owner \in {[n \in Nodes |-> o] : o \in {EMPTY_ADDR_HEX, Address(1, "checksum")}}
    /\ resolverOf \in
         {NameRegistry(q, EMPTY_ADDR_HEX, k, R1) :
            q \in {EMPTY_ADDR_HEX, R2}, k \in 0..MaxDepth}
    /\ supports \in
         {[r \in Resolvers |-> [i \in InterfaceIds |-> p[i]]] :
          p \in [InterfaceIds -> ProbeOutcomes]}
    /\ addrRec \in {Unset(v) : v \in {EMPTY_ADDR_HEX, Address(1, "lower")}}
    /\ nameRec = Unset(Str(FullName))
    /\ textRec = [r \in Resolvers |-> [n \in Nodes |->
                     IF n = normal_name_to_hash(FullName) THEN "text of the name"
                     ELSE IF n \in ChainNodes THEN "text of an ancestor"
                     ELSE ""]]
    /\ abiHasProbe = [a \in AbiKinds |-> TRUE]
    /\ accounts \in {{}, {1}}
    /\ last = NoOp
    /\ funds = Unlimited
    /\ WaitIdle
    /\ tasks = NoTasks

\* reverser(target_address)
DoReverser(a) ==
    /\ Idle
    /\ \E res \in {ENS_reverser(Chain, a)} :
          last' = [op |-> "reverser", address |-> a,
                   ret |-> res.ret, err |-> res.err, calls |-> res.calls]
    /\ UNCHANGED <<waitVars, tasks>>
    /\ UNCHANGED chainVars

\* owner(name)
DoOwner(n) ==
    /\ Idle
    /\ \E res \in {ENS_owner(Chain, n)} :
          last' = [op |-> "owner", name |-> n,
                   ret |-> res.ret, err |-> res.err, calls |-> res.calls]
    /\ UNCHANGED <<waitVars, tasks>>
    /\ UNCHANGED chainVars

NextReads ==
    \/ \E n \in RawNames : DoAddress(n)
    \/ \E a \in AddressValues \ {EMPTY_ADDR_HEX} : DoName(a)
    \/ \E n \in RawNames : DoResolver(n)
    \/ \E a \in AddressValues \ {EMPTY_ADDR_HEX} : DoReverser(a)
    \/ \E n \in RawNames : DoOwner(n)
    \/ \E n \in RawNames, key \in TextKeys : DoGetText(n, key)
    \/ TakeResult

SpecReads == InitReads /\ [][NextReads]_vars

(***************************************************************************)
(* The caller's transaction configuration.  A dictionary is an object: the *)
(* objects of a call are the sequence objs, the caller's dictionary is     *)
(* object 1 (None when the caller passes none), and a variable `transact`  *)
(* of a method is a reference ref into objs.  A method is followed for     *)
(* what it does with its transact variable; which of its steps a call      *)
(* reaches depends on the chain and is left open (path).                   *)
(***************************************************************************)
EmptyDict == TxParams(None)
\* `not transact`
NotDict(d) == d = None \/ d = EmptyDict

\* "if not transact: transact = {}": a new empty dictionary
transact_or_empty(s) ==
    IF NotDict(s.objs[s.ref])
    THEN [objs |-> Append(s.objs, EmptyDict), ref |-> Len(s.objs) + 1]
    ELSE s

\* transact = deepcopy(transact): a new object with the same entries
deepcopy(s) ==
    [objs |-> Append(s.objs, s.objs[s.ref]), ref |-> Len(s.objs) + 1]

\* transact['from'] = from
set_from(s, from) == [s EXCEPT !.objs[s.ref].from = from]

\* the steps of a call that are reached: the claims of setup_owner, the
\* writes of setup_address, the setup_address and the _setup_reverse of
\* setup_name
TransactPaths ==
    [claim : BOOLEAN, write : BOOLEAN, forward : BOOLEAN, reverse : BOOLEAN]

\* _claim_ownership, lines 497-500
transact__claim_ownership(s, from) ==
    [set_from(deepcopy(transact_or_empty(s)), from) EXCEPT !.ref = s.ref]

\* setup_owner, lines 415-417 and 431
transact_setup_owner(s, from, path) ==
    LET s1 == deepcopy(transact_or_empty(s))
    IN [(IF path.claim THEN transact__claim_ownership(s1, from) ELSE s1)
           EXCEPT !.ref = s.ref]

\* _set_resolver, lines 515-517
transact__set_resolver(s) ==
    [deepcopy(transact_or_empty(s)) EXCEPT !.ref = s.ref]

\* a setup_address that works on the dictionary it was given
transact_setup_address_no_copy(s, from, path) ==
    LET s1 == transact_or_empty(s)
        s2 == [transact_setup_owner(s1, from, path) EXCEPT !.ref = s1.ref]
    IN [(IF path.write THEN transact__set_resolver(set_from(s2, from)) ELSE s2)
           EXCEPT !.ref = s.ref]

\* setup_address, lines 215-218 and 234-235
transact_setup_address(s, from, path) ==
    LET s1 == deepcopy(transact_or_empty(s))
        s2 == [transact_setup_owner(s1, from, path) EXCEPT !.ref = s1.ref]
    IN [(IF path.write THEN transact__set_resolver(set_from(s2, from)) ELSE s2)
           EXCEPT !.ref = s.ref]

\* _setup_reverse, lines 565-568
transact__setup_reverse(s, from) ==
    [set_from(deepcopy(transact_or_empty(s)), from) EXCEPT !.ref = s.ref]

\* setup_name, lines 258-261 and 282-284
transact_setup_name(s, from, path) ==
    LET s1 == deepcopy(transact_or_empty(s))
        s2 == IF path.forward
              THEN [transact_setup_address(s1, from, path) EXCEPT !.ref = s1.ref]
              ELSE s1
    IN [(IF path.reverse THEN transact__setup_reverse(s2, from) ELSE s2)
           EXCEPT !.ref = s.ref]

\* set_text, lines 363-370: merge builds a new dictionary
transact_set_text(s, from) ==
    LET s1 == transact_or_empty(s)
    IN [objs |-> Append(s1.objs, merge_from(from, s1.objs[s1.ref])),
        ref |-> s.ref]

\* the dictionaries a caller passes: none, an empty one, and dictionaries
\* with 'from', with 'gas', and with both
CallerDicts ==
    {None, EmptyDict, TxParamsGas(None)}
        \cup {TxParams(Address(i, "checksum")) : i \in AccountIds}
        \cup {TxParamsGas(Address(i, "checksum")) : i \in AccountIds}
TransactOps == {"setup_owner", "setup_address", "setup_name", "set_text"}

\* the objects after method op was called with the caller's dictionary
transact_of(op, s, from, path) ==
    IF op = "setup_owner" THEN transact_setup_owner(s, from, path)
    ELSE IF op = "setup_address" THEN transact_setup_address(s, from, path)
    ELSE IF op = "setup_name" THEN transact_setup_name(s, from, path)
    ELSE transact_set_text(s, from)

\* op(..., transact=d) is called and returns or raises; `from` is the
\* account the method sends from
DoTransact(op, d, from, path) ==
    /\ Idle
    /\ \E res \in {transact_of(op, [objs |-> <<d>>, ref |-> 1], from, path)} :
          last' = [op |-> "transact", method |-> op, transact |-> d,
                   from |-> from, path |-> path,
                   after |-> res.objs[1], objs |-> res.objs]
    /\ UNCHANGED <<waitVars, tasks>>
    /\ UNCHANGED chainVars

NextTransact ==
    \/ \E op \in TransactOps, d \in CallerDicts,
          from \in {Address(i, "checksum") : i \in AccountIds},
          path \in TransactPaths : DoTransact(op, d, from, path)
    \/ TakeResult

SpecTransact == InitWait /\ [][NextTransact]_vars

(***************************************************************************)
(* Properties of resolution, checked under Spec.                           *)
(***************************************************************************)
NodeOf(n) == normal_name_to_hash(n)

\* the levels k of the ancestor chain of n (k = 1 is n itself) at which
\* the registry holds a resolver, and the most specific of them
Registered(n) ==
    {k \in 1..Len(n) : resolverOf[NodeOf(Suffix(n, k))] # EMPTY_ADDR_HEX}
Nearest(n) == CHOOSE k \in Registered(n) : \A j \in Registered(n) : k <= j
NearestResolver(n) == resolverOf[NodeOf(Suffix(n, Nearest(n)))]

\* the probe of the resolver of ABI kind abi at r for interface i yields false
ProbeFalse(r, abi, i) == ~abiHasProbe[abi] \/ supports[r][i] = "false"
ProbeTrue(r, abi, i) == abiHasProbe[abi] /\ supports[r][i] = "true"

CallsOf(fns) == {i \in 1..Len(last.calls) : last.calls[i].fn \in fns}

\* C1: _get_resolver returns the resolver registered at the most specific
\* name of the ancestor chain that has one, paired with exactly that name.
C1_NearestResolver ==
    (last.op = "_get_resolver" /\ Registered(last.name) # {}) =>
        /\ last.ret # None
        /\ last.ret.address = NearestResolver(last.name)
        /\ last.current_name = Suffix(last.name, Nearest(last.name))

\* the resolver is found above the name, below another registered resolver
C1_Witness ==
    /\ last.op = "_get_resolver"
    /\ Cardinality(Registered(last.name)) >= 2
    /\ Nearest(last.name) > 1
    /\ \E k \in Registered(last.name) :
          resolverOf[NodeOf(Suffix(last.name, k))] # NearestResolver(last.name)
    /\ last.ret # None

\* C2: when no name of the ancestor chain has a resolver, _get_resolver
\* returns (None, '') after exactly one registry read per label of the name,
\* most specific first.
C2_NoResolverReads ==
    (last.op = "_get_resolver" /\ Registered(last.name) = {}) =>
        /\ last.ret = None
        /\ last.current_name = << >>
        /\ Len(last.calls) = Len(last.name)
        /\ \A i \in 1..Len(last.calls) :
              last.calls[i] =
                  Call(ENS_ADDR, "resolver", NodeOf(Suffix(last.name, i)), None)

C2_Witness ==
    /\ last.op = "_get_resolver"
    /\ Registered(last.name) = {}
    /\ Len(last.name) = MaxDepth
    /\ Len(last.calls) = MaxDepth

\* the normalized name of the last address() call, when it has one
Queried == normalize_name(last.name)
AddressCalled ==
    /\ last.op = "address"
    /\ is_valid_name(last.name)
    /\ Registered(Queried) # {}

\* C3: a resolver found only at a strict ancestor whose extended-resolution
\* probe is false gives None, and is asked neither addr(node) nor resolve().
C3_AncestorWithoutWildcard ==
    (/\ AddressCalled
     /\ Nearest(Queried) > 1
     /\ ProbeFalse(NearestResolver(Queried), "RESOLVER",
                   EXTENDED_RESOLVER_INTERFACE_ID)) =>
        /\ last.err = ""
        /\ last.ret = None
        /\ CallsOf({"addr", "name", "resolve"}) = {}

\* ... although that resolver holds a non-zero address for the node and was
\* asked supportsInterface
C3_Witness ==
    /\ AddressCalled
    /\ Nearest(Queried) > 1
    /\ abiHasProbe["RESOLVER"]
    /\ supports[NearestResolver(Queried)][EXTENDED_RESOLVER_INTERFACE_ID] = "false"
    /\ addrRec[NearestResolver(Queried)][NodeOf(Queried)] # EMPTY_ADDR_HEX
    /\ last.ret = None
    /\ CallsOf({"supportsInterface"}) # {}

\* C4: when the extended-resolution probe is true the value comes from one
\* resolve(wire name, call data) on the located resolver, for the full
\* queried name, wherever the resolver was found; addr(node) is not called.
C4_ExtendedResolve ==
    (/\ AddressCalled
     /\ ProbeTrue(NearestResolver(Queried), "RESOLVER",
                  EXTENDED_RESOLVER_INTERFACE_ID)) =>
        /\ last.err = ""
        /\ CallsOf({"addr", "name"}) = {}
        /\ CallsOf({"resolve"}) = {Len(last.calls)}
        /\ last.calls[Len(last.calls)] =
              Call(NearestResolver(Queried), "resolve", << >>,
                   [k |-> "resolve", name |-> Queried \o <<"">>,
                    data |-> [k |-> "calldata", fn |-> "addr",
                              node |-> NodeOf(Queried)]])
        /\ last.ret =
              to_checksum_address(addrRec[NearestResolver(Queried)][NodeOf(Queried)])

\* the resolver sits at the name itself, was written in upper case by the
\* caller, and answers a lower-case address
C4_Witness ==
    /\ AddressCalled
    /\ ProbeTrue(NearestResolver(Queried), "RESOLVER",
                 EXTENDED_RESOLVER_INTERFACE_ID)
    /\ Nearest(Queried) = 1
    /\ last.name # Queried
    /\ addrRec[NearestResolver(Queried)][NodeOf(Queried)] = Address(1, "lower")
    /\ last.ret = Address(1, "checksum")

\* the same with the resolver found at a strict ancestor
C4_WitnessAncestor ==
    /\ AddressCalled
    /\ ProbeTrue(NearestResolver(Queried), "RESOLVER",
                 EXTENDED_RESOLVER_INTERFACE_ID)
    /\ Nearest(Queried) > 1
    /\ last.ret = Address(1, "checksum")

\* C5: when the probe is false and the resolver sits at the name itself,
\* addr(node) is called on it once; a zero answer gives None, any other
\* answer is returned in checksum form.
C5_DirectCall ==
    (/\ AddressCalled
     /\ Nearest(Queried) = 1
     /\ ProbeFalse(NearestResolver(Queried), "RESOLVER",
                   EXTENDED_RESOLVER_INTERFACE_ID)) =>
        LET answer == addrRec[NearestResolver(Queried)][NodeOf(Queried)]
        IN /\ last.err = ""
           /\ CallsOf({"resolve"}) = {}
           /\ CallsOf({"addr"}) = {Len(last.calls)}
           /\ last.calls[Len(last.calls)] =
                 Call(NearestResolver(Queried), "addr", NodeOf(Queried), None)
           /\ last.ret = IF answer = EMPTY_ADDR_HEX THEN None
                         ELSE Address(answer.id, "checksum")

C5_Witness ==
    /\ AddressCalled
    /\ Nearest(Queried) = 1
    /\ ProbeFalse(NearestResolver(Queried), "RESOLVER",
                  EXTENDED_RESOLVER_INTERFACE_ID)
    /\ addrRec[NearestResolver(Queried)][NodeOf(Queried)] = Address(1, "lower")
    /\ last.ret = Address(1, "checksum")

\* C6: address(name) returns None when no resolver is found or when the
\* resolver answers the zero address, whichever call shape is used, and
\* never returns the zero address.
C6_MissIsNone ==
    (last.op = "address" /\ last.err = "") =>
        /\ last.ret # EMPTY_ADDR_HEX
        /\ Registered(Queried) = {} => last.ret = None
        /\ (/\ Registered(Queried) # {}
            /\ CallsOf({"addr", "resolve"}) # {}
            /\ addrRec[NearestResolver(Queried)][NodeOf(Queried)] = EMPTY_ADDR_HEX)
           => last.ret = None

\* C9: the probe returns false without a read when the ABI of the handle
\* has no supportsInterface; otherwise it issues exactly one
\* supportsInterface(interface id) read and returns the boolean read.
C9_ProbeReads ==
    last.op = "_resolver_supports_interface" =>
        IF ~abiHasProbe[last.resolver.abi]
        THEN last.ret = FALSE /\ last.err = "" /\ last.calls = << >>
        ELSE /\ last.calls =
                  <<Call(last.resolver.address, "supportsInterface", << >>,
                         [k |-> "interface", id |-> last.interface])>>
             /\ supports[last.resolver.address][last.interface] # "fail" =>
                   /\ last.err = ""
                   /\ last.ret =
                        (supports[last.resolver.address][last.interface] = "true")

\* the ABI lacks the method although the contract would have answered true
C9_Witness ==
    /\ last.op = "_resolver_supports_interface"
    /\ ~abiHasProbe[last.resolver.abi]
    /\ supports[last.resolver.address][last.interface] = "true"
    /\ last.ret = FALSE
    /\ last.calls = << >>

\* C10: a failure of the supportsInterface read is never propagated: the
\* probe returns false, and address() does not fail with it.
C10_ProbeFailureSwallowed ==
    last.op \in {"_resolver_supports_interface", "address"} =>
        last.err # "ContractCallFailed"

(***************************************************************************)
(* Properties of reverse resolution, checked under SpecName.               *)
(***************************************************************************)
\* the name the reverse record of the last name() call resolves to
ReverseResolved ==
    _resolve(Chain, address_to_reverse_domain(last.address), "name").ret

\* C7: name(addr) returns a name n only if address(n) is the checksummed
\* addr; when the forward address of the reverse-resolved name differs from
\* addr or is absent, name(addr) returns None.
C7_ReverseAuthenticity ==
    last.op = "name" =>
        /\ last.ret # None =>
              /\ last.ret = ReverseResolved
              /\ ENS_address(Chain, last.ret.name).err = ""
              /\ ENS_address(Chain, last.ret.name).ret =
                    Address(last.address.id, "checksum")
        /\ (/\ last.err = ""
            /\ ReverseResolved # None
            /\ ENS_address(Chain, ReverseResolved.name).ret #
                  Address(last.address.id, "checksum"))
           => last.ret = None

\* a reverse record names a name whose forward address is another account
C7_Witness ==
    /\ last.op = "name"
    /\ last.err = ""
    /\ ReverseResolved # None
    /\ ENS_address(Chain, ReverseResolved.name).ret \notin
          {None, EMPTY_ADDR_HEX, Address(last.address.id, "checksum")}
    /\ last.ret = None

\* a lower-case address whose reverse record is confirmed by the forward one
C7_WitnessMatch ==
    /\ last.op = "name"
    /\ last.address.form = "lower"
    /\ last.ret # None
    /\ Len(last.ret.name) = MaxDepth

(***************************************************************************)
(* Properties of text records, checked under SpecText.                     *)
(***************************************************************************)
TextCalled ==
    /\ last.op \in {"get_text", "set_text"}
    /\ is_valid_name(last.name)

NoTextCallNoTransaction ==
    /\ CallsOf({"text", "setText"}) = {}
    /\ \A i \in 1..Len(last.calls) : last.calls[i].kind = "call"

\* C8: get_text and set_text fail with ResolverNotFound when no name of the
\* ancestor chain has a resolver, and with UnsupportedFunction when the
\* resolver found has a false text-interface probe; in both cases no text
\* call is issued and no transaction is submitted.
C8_TextErrors ==
    TextCalled =>
        /\ Registered(Queried) = {} =>
              last.err = "ResolverNotFound" /\ NoTextCallNoTransaction
        /\ (/\ Registered(Queried) # {}
            /\ ProbeFalse(NearestResolver(Queried), "RESOLVER",
                          GET_TEXT_INTERFACE_ID))
           => last.err = "UnsupportedFunction" /\ NoTextCallNoTransaction

\* set_text by the owner of the name, refused because the resolver found at
\* an ancestor answers false to the probe
C8_Witness ==
    /\ last.op = "set_text"
    /\ is_valid_name(last.name)
    /\ Registered(Queried) # {}
    /\ Nearest(Queried) > 1
    /\ abiHasProbe["RESOLVER"]
    /\ supports[NearestResolver(Queried)][GET_TEXT_INTERFACE_ID] = "false"
    /\ TxAccepted(Chain, NodeOf(Queried), owner[NodeOf(Queried)])
    /\ last.err = "UnsupportedFunction"

C8_WitnessNotFound ==
    /\ last.op = "get_text"
    /\ is_valid_name(last.name)
    /\ Len(Queried) = MaxDepth
    /\ Registered(Queried) = {}
    /\ last.err = "ResolverNotFound"
(***************************************************************************)
(* Properties of setup_owner, checked under SpecOwner.                     *)
(***************************************************************************)
\* the levels k of the ancestor chain of n (k = 1 is n itself) that have an
\* owner in the registry o, the most specific of them, and its owner
Owned(o, n) == {k \in 1..Len(n) : o[NodeOf(Suffix(n, k))] # EMPTY_ADDR_HEX}
FirstOwned(o, n) == CHOOSE k \in Owned(o, n) : \A j \in Owned(o, n) : k <= j
SuperOwner(o, n) ==
    IF Owned(o, n) = {} THEN EMPTY_ADDR_HEX
    ELSE o[NodeOf(Suffix(n, FirstOwned(o, n)))]

\* the last operation was setup_owner of a valid name
SetupOwnerRan == last.op = "setup_owner" /\ last.err # "InvalidName"
LastName == normalize_name(last.name)
OwnerBefore == last.pre.owner[NodeOf(LastName)]
SuperOwnerBefore == SuperOwner(last.pre.owner, LastName)
TargetOwner ==
    IF last.new_owner = Default THEN SuperOwnerBefore
    ELSE IF last.new_owner = None THEN EMPTY_ADDR_HEX
    ELSE to_checksum_address(last.new_owner)
Transactions == SelectSeq(last.calls, LAMBDA x : x.kind = "transact")

\* C11: when the registry's current owner of the name already equals the
\* target owner (new_owner, or the super-owner when none is given),
\* setup_owner returns the current owner, submits no transaction, reads no
\* account list and leaves the registry as it was.
C11_NoOpWhenOwned ==
    (SetupOwnerRan /\ OwnerBefore = TargetOwner) =>
        /\ last.err = ""
        /\ last.ret = OwnerBefore
        /\ Transactions = << >>
        /\ CallsOf({"eth_accounts"}) = {}
        /\ owner = last.pre.owner

\* the name is owned by an account the node does not control, and is asked
\* to be owned by that same account
C11_Witness ==
    /\ SetupOwnerRan
    /\ OwnerBefore = TargetOwner
    /\ last.new_owner \notin {Default, None}
    /\ ~address_in(OwnerBefore, accounts)
    /\ last.ret = OwnerBefore

\* C12: when the current owner differs from the target owner, setup_owner
\* fails with UnauthorizedError exactly when the super-owner is not among
\* the accounts the node reports.
C12_Unauthorized ==
    (SetupOwnerRan /\ OwnerBefore # TargetOwner) =>
        (last.err = "UnauthorizedError"
            <=> ~address_in(SuperOwnerBefore, accounts))

\* an ancestor is owned by an account the node does not control
C12_Witness ==
    /\ SetupOwnerRan
    /\ OwnerBefore # TargetOwner
    /\ SuperOwnerBefore # EMPTY_ADDR_HEX
    /\ last.err = "UnauthorizedError"

\* a controlled super-owner: the call goes on to claim
C12_WitnessControlled ==
    /\ SetupOwnerRan
    /\ OwnerBefore # TargetOwner
    /\ address_in(SuperOwnerBefore, accounts)
    /\ last.err = ""

\* the number of unowned labels below the first owned ancestor, and the
\* i-th claim: its parent is the name the (i-1)-th claim created
UnownedCount == FirstOwned(last.pre.owner, LastName) - 1
ExpectedClaim(i) ==
    SubnodeTx(Suffix(LastName, UnownedCount - i + 2),
              LastName[UnownedCount - i + 1], TargetOwner, SuperOwnerBefore)

\* C13: with the unowned labels l1..lk (deepest first) under the owned
\* ancestor A, the transactions setup_owner submits are setSubnodeOwner of
\* lk under A, then of l(k-1) under lk.A, and so on, each for the target
\* owner; they are all k when setup_owner returns, and stop only at a
\* transaction that fails.
C13_ClaimOrder ==
    (/\ SetupOwnerRan
     /\ OwnerBefore # TargetOwner
     /\ address_in(SuperOwnerBefore, accounts)) =>
        /\ last.err \in {"", "TransactionFailed"}
        /\ Len(Transactions) <= UnownedCount
        /\ \A i \in 1..Len(Transactions) : Transactions[i] = ExpectedClaim(i)
        /\ last.err = "" => Len(Transactions) = UnownedCount

\* two labels are claimed, the deeper one last
C13_Witness ==
    /\ SetupOwnerRan
    /\ last.err = ""
    /\ address_in(SuperOwnerBefore, accounts)
    /\ UnownedCount >= 2
    /\ Len(Transactions) = UnownedCount
    /\ owner[NodeOf(LastName)] = TargetOwner
    /\ OwnerBefore = EMPTY_ADDR_HEX

\* C14: whenever setup_owner returns an owner without raising, the registry
\* holds that owner for the name afterwards.
C14_OwnerIsReturned ==
    (SetupOwnerRan /\ last.err = "" /\ last.ret # None) =>
        owner[NodeOf(LastName)] = last.ret

(***************************************************************************)
(* Properties of setup_address, checked under SpecAddress.                 *)
(***************************************************************************)
SetupAddressRan == last.op = "setup_address" /\ last.err # "InvalidName"
TransactionsTo(fns) == SelectSeq(Transactions, LAMBDA x : x.fn \in fns)

\* the chain as the last operation found it
PreChain ==
    [Chain EXCEPT !.owner = last.pre.owner,
                  !.resolverOf = last.pre.resolverOf,
                  !.addrRec = last.pre.addrRec]

\* no resolver answers the extended-resolution probe with true or a failure
NoExtendedResolver ==
    \A r \in Resolvers : supports[r][EXTENDED_RESOLVER_INTERFACE_ID] = "false"

\* C15: a setup_address repeated with the same arguments after it returned
\* submits no transaction and returns none.
C15_Idempotent ==
    last.op = "setup_address_again" =>
        /\ last.err = ""
        /\ last.ret = None
        /\ Transactions = << >>

\* C16: after setup_address(name, addr) returned for a non-zero addr,
\* address(name) returns addr in checksum form.
C16_RoundTrip ==
    (/\ last.op = "address_after_setup"
     /\ last.address # Default
     /\ ~is_none_or_zero_address(last.address)) =>
        /\ last.err = ""
        /\ last.ret = to_checksum_address(last.address)

\* C17 as stated: when the registry holds a non-zero resolver for the name,
\* setup_address submits no setResolver and leaves the registration alone.
C17_CustomResolverKept ==
    (SetupAddressRan
        /\ last.pre.resolverOf[NodeOf(LastName)] # EMPTY_ADDR_HEX) =>
        /\ TransactionsTo({"setResolver"}) = << >>
        /\ resolverOf[NodeOf(LastName)] = last.pre.resolverOf[NodeOf(LastName)]

\* what address('resolver.eth') returned when the last operation started
DefaultResolverBefore == ENS_address(PreChain, RESOLVER_ETH).ret
ResolverBefore == last.pre.resolverOf[NodeOf(LastName)]

\* C17, amended: when the registry already holds for the name the address
\* that 'resolver.eth' resolves to, setup_address submits no setResolver and
\* leaves the registration alone; when it holds anything else (no resolver
\* or another resolver) and the record is to be written, setup_address
\* submits one setResolver to the address of 'resolver.eth', which replaces
\* the registration.
C17_DefaultResolver ==
    SetupAddressRan =>
        /\ ResolverBefore = DefaultResolverBefore =>
              /\ TransactionsTo({"setResolver"}) = << >>
              /\ resolverOf[NodeOf(LastName)] = ResolverBefore
        /\ (/\ last.err = ""
            /\ last.ret # None
            /\ ResolverBefore # DefaultResolverBefore) =>
              /\ TransactionsTo({"setResolver"}) =
                    <<ResolverTx(NodeOf(LastName), DefaultResolverBefore,
                                 owner[NodeOf(LastName)])>>
              /\ resolverOf[NodeOf(LastName)] = DefaultResolverBefore

\* the name already has the default resolver, and only setAddr is sent
C17_Witness ==
    /\ SetupAddressRan
    /\ last.err = ""
    /\ last.ret # None
    /\ ResolverBefore = DefaultResolverBefore
    /\ ResolverBefore \in Resolvers
    /\ TransactionsTo({"setResolver"}) = << >>
    /\ TransactionsTo({"setAddr"}) # << >>

\* the name has another resolver, which setup_address replaces
C17_WitnessReplaced ==
    /\ SetupAddressRan
    /\ last.err = ""
    /\ ResolverBefore \in Resolvers
    /\ DefaultResolverBefore \in Resolvers
    /\ ResolverBefore # DefaultResolverBefore
    /\ resolverOf[NodeOf(LastName)] = DefaultResolverBefore

\* C18: setup_address fails with UnauthorizedError whenever the 'from' of
\* the supplied transact does not own the name.
C18_FromMustOwn ==
    (/\ SetupAddressRan
     /\ last.transact.from # None
     /\ to_checksum_address(last.transact.from) # owner[NodeOf(LastName)]) =>
        last.err = "UnauthorizedError"

\* C19: setup_address with none or the zero address: if address(name)
\* returned a value before, a setAddr(node, zero) is submitted and
\* address(name) returns none afterwards; if it returned none, no
\* transaction is submitted.
ClearRan ==
    /\ SetupAddressRan
    /\ last.err = ""
    /\ is_none_or_zero_address(last.address)
C19_Clears ==
    ClearRan =>
        IF ENS_address(PreChain, last.name).ret # None
        THEN /\ TransactionsTo({"setAddr"}) # << >>
             /\ \A i \in 1..Len(TransactionsTo({"setAddr"})) :
                   /\ TransactionsTo({"setAddr"})[i].node = NodeOf(LastName)
                   /\ TransactionsTo({"setAddr"})[i].arg.value = EMPTY_ADDR_HEX
             /\ ENS_address(Chain, last.name).ret = None
        ELSE Transactions = << >>

(***************************************************************************)
(* Properties of setup_name, checked under SpecReverse.                    *)
(***************************************************************************)
SetupNameRan == last.op = "setup_name"
EmptyName == last.name = None \/ last.name = << >>

\* C20: setup_name with an empty name and an address that is not among the
\* accounts of the node fails with UnauthorizedError, submits no
\* transaction and leaves the chain as it was.
C20_ReverseUnauthorized ==
    (SetupNameRan /\ EmptyName /\ ~address_in(last.address, accounts)) =>
        /\ last.err = "UnauthorizedError"
        /\ Transactions = << >>
        /\ owner = last.pre.owner
        /\ resolverOf = last.pre.resolverOf
        /\ nameRec = last.pre.nameRec

\* an account address that the node does not control, with a registrar
C20_Witness ==
    /\ SetupNameRan
    /\ EmptyName
    /\ is_checksum_address(last.address)
    /\ last.address # EMPTY_ADDR_HEX
    /\ ~address_in(last.address, accounts)
    /\ owner[NodeOf(REVERSE_REGISTRAR_DOMAIN)] = REVERSE_REGISTRAR
    /\ last.err = "UnauthorizedError"

\* a controlled account: the reverse record is cleared
C20_WitnessControlled ==
    /\ SetupNameRan
    /\ EmptyName
    /\ address_in(last.address, accounts)
    /\ last.err = ""
    /\ Len(TransactionsTo({"setName"})) = 1


\* what address(name) and owner(name) returned when setup_name started
NamedRan == SetupNameRan /\ ~EmptyName /\ is_valid_name(last.name)
ResolvedBefore == ENS_address(PreChain, last.name)
OwnerOfNameBefore == last.pre.owner[NodeOf(LastName)]
ChainUntouched ==
    /\ owner = last.pre.owner
    /\ resolverOf = last.pre.resolverOf
    /\ addrRec = last.pre.addrRec
    /\ nameRec = last.pre.nameRec

\* C21: setup_name(name, address) with an address that is not none and not
\* zero, for a name that address(name) resolves to another non-zero
\* address, fails with AddressMismatch, submits no transaction and leaves
\* the chain as it was.
C21_AddressMismatch ==
    (/\ NamedRan
     /\ ~is_none_or_zero_address(last.address)
     /\ ResolvedBefore.err = ""
     /\ ~is_none_or_zero_address(ResolvedBefore.ret)
     /\ to_checksum_address(ResolvedBefore.ret)
            # to_checksum_address(last.address)) =>
        /\ last.err = "AddressMismatch"
        /\ Transactions = << >>
        /\ ChainUntouched

\* a controlled account is passed for a name that resolves to another one
C21_Witness ==
    /\ NamedRan
    /\ is_checksum_address(last.address)
    /\ address_in(last.address, accounts)
    /\ ResolvedBefore.err = ""
    /\ is_address(ResolvedBefore.ret)
    /\ ResolvedBefore.ret # EMPTY_ADDR_HEX
    /\ ResolvedBefore.ret # last.address
    /\ last.err = "AddressMismatch"


\* the address setup_name uses when none is passed: the resolution of the
\* name, and the owner of the name when there is no resolution
NoAddressRan ==
    /\ NamedRan
    /\ is_none_or_zero_address(last.address)
    /\ ResolvedBefore.err = ""
FallbackAddress ==
    IF ~is_none_or_zero_address(ResolvedBefore.ret) THEN ResolvedBefore.ret
    ELSE OwnerOfNameBefore

\* C22: setup_name of a name with no address uses the address the name
\* resolves to and, when there is none, the owner of the name: it fails
\* with UnownedName exactly when both are none or zero, and then submits no
\* transaction; otherwise the fallback address is the one checked against
\* the accounts and the sender of the setName transaction.
C22_Fallback ==
    NoAddressRan =>
        /\ last.err = "UnownedName" <=> is_none_or_zero_address(FallbackAddress)
        /\ last.err = "UnownedName" =>
              Transactions = << >> /\ ChainUntouched
        /\ last.err = "UnauthorizedError" =>
              ~address_in(FallbackAddress, accounts)
        /\ \A i \in 1..Len(TransactionsTo({"setName"})) :
              TransactionsTo({"setName"})[i].arg.from = FallbackAddress

\* no resolution and no owner: UnownedName
C22_Witness ==
    /\ NoAddressRan
    /\ last.address = None
    /\ is_none_or_zero_address(ResolvedBefore.ret)
    /\ OwnerOfNameBefore = EMPTY_ADDR_HEX
    /\ last.err = "UnownedName"

\* no resolution, and the owner of the name becomes the address
C22_WitnessOwner ==
    /\ NoAddressRan
    /\ last.address = None
    /\ is_none_or_zero_address(ResolvedBefore.ret)
    /\ OwnerOfNameBefore # EMPTY_ADDR_HEX
    /\ last.err = ""
    /\ Len(TransactionsTo({"setName"})) = 1
    /\ TransactionsTo({"setName"})[1].arg.from = OwnerOfNameBefore

\* a resolution that is not the owner of the name becomes the address
C22_WitnessResolved ==
    /\ NoAddressRan
    /\ last.address = None
    /\ ~is_none_or_zero_address(ResolvedBefore.ret)
    /\ ResolvedBefore.ret # OwnerOfNameBefore
    /\ last.err = ""
    /\ TransactionsTo({"setName"})[1].arg.from = ResolvedBefore.ret


\* the address setup_name works with: the one passed, in checksum form, or
\* the fallback
UsedAddress ==
    IF is_none_or_zero_address(last.address) THEN FallbackAddress
    ELSE to_checksum_address(last.address)
ForwardFns == {"setSubnodeOwner", "setResolver", "setAddr"}

ReverseRegistrarDeployed ==
    owner[NodeOf(REVERSE_REGISTRAR_DOMAIN)] = REVERSE_REGISTRAR
NameAfterSetupRan ==
    /\ last.op = "name_after_setup"
    /\ last.name # None
    /\ last.name # << >>
    /\ ReverseRegistrarDeployed

\* C24: after setup_name(name, address) returned for a name that is not
\* empty, name(address) returns the name.
C24_NameAfterSetup ==
    NameAfterSetupRan =>
        /\ last.err = ""
        /\ last.ret = Str(normalize_name(last.name))

\* C24 where no resolver answers the extended-resolution probe with true
\* or a failure
C24_NameAfterSetupDirect ==
    (NameAfterSetupRan /\ NoExtendedResolver) =>
        /\ last.err = ""
        /\ last.ret = Str(normalize_name(last.name))

C24_WitnessDirect ==
    /\ NameAfterSetupRan
    /\ NoExtendedResolver
    /\ last.ret = Str(FullName)


(***************************************************************************)
(* Properties of wait_for_transaction_receipt, checked under SpecWait and  *)
(* SpecWaitNeverMined.                                                     *)
(***************************************************************************)
WaitRan == wait.pc # "idle"
WaitReturned == wait.pc = "done" /\ wait.err = ""
WaitFailed == wait.pc = "done" /\ wait.err = "TimeExhausted"
NumEvents == Len(wait.events)
IsFetch(i) == wait.events[i].e = "fetch"
IsSleep(i) == wait.events[i].e = "sleep"
YieldsNothing(i) == IsFetch(i) /\ wait.events[i].v \in {"null", "notfound"}
YieldsReceipt(i) == IsFetch(i) /\ wait.events[i].v = "receipt"

\* C25: a fetch that yields TransactionNotFound or a null receipt is
\* followed by a sleep and never ends the call with that error; a fetch
\* that yields a receipt is the last step of the call, which returns that
\* receipt; the call returns only such a receipt, never none.
C25_ReceiptPolling ==
    WaitRan =>
        /\ wait.err \in {"", "TimeExhausted"}
        /\ \A i \in 1..NumEvents :
              /\ YieldsNothing(i) =>
                    IF i < NumEvents THEN IsSleep(i + 1) ELSE wait.pc = "sleep"
              /\ YieldsReceipt(i) =>
                    /\ i = NumEvents
                    /\ WaitReturned
                    /\ wait.ret = Receipt(wait.events[i].at)
        /\ WaitReturned =>
              /\ NumEvents >= 1
              /\ YieldsReceipt(NumEvents)
              /\ wait.ret # None

\* the receipt comes after a TransactionNotFound and a null result
C25_Witness ==
    /\ WaitReturned
    /\ wait.ret \in {Receipt(t) : t \in 0..MaxClock}
    /\ \E i \in 1..NumEvents : IsFetch(i) /\ wait.events[i].v = "notfound"
    /\ \E i \in 1..NumEvents : IsFetch(i) /\ wait.events[i].v = "null"


\* C27: the steps of a call alternate, beginning with a fetch: a fetch is
\* followed by nothing but one sleep, a sleep by nothing but a fetch, the
\* sleep between two fetches lasts poll_latency, and a fetch that yields a
\* receipt is followed by nothing.
C27_OneSleepBetweenFetches ==
    WaitRan =>
        /\ NumEvents >= 1 => IsFetch(1)
        /\ \A i \in 1..NumEvents :
              /\ (IsFetch(i) /\ i < NumEvents) => IsSleep(i + 1)
              /\ (IsSleep(i) /\ i < NumEvents) =>
                    /\ IsFetch(i + 1)
                    /\ wait.events[i].v = wait.poll_latency
                    /\ wait.events[i].at - wait.events[i - 1].at
                          = wait.poll_latency
              /\ YieldsReceipt(i) => i = NumEvents /\ wait.pc = "done"
        /\ (wait.pc = "fetch" /\ NumEvents >= 1) =>
              /\ IsSleep(NumEvents)
              /\ wait.events[NumEvents].v = wait.poll_latency
        /\ wait.pc = "sleep" => YieldsNothing(NumEvents)

\* three fetches with a sleep after the first and after the second
C27_Witness ==
    /\ WaitReturned
    /\ NumEvents = 5
    /\ IsFetch(1) /\ IsSleep(2) /\ IsFetch(3) /\ IsSleep(4)
    /\ YieldsReceipt(5)


\* how long the fetch before the last sleep of the call took
LastFetchTime ==
    IF NumEvents >= 2 /\ IsFetch(NumEvents - 1)
    THEN wait.events[NumEvents - 1].at
            - (IF NumEvents >= 3 THEN wait.events[NumEvents - 2].at
               ELSE wait.begun_at)
    ELSE 0

C26_WitnessLate ==
    /\ WaitFailed
    /\ wait.mode = "sync"
    /\ ~mined
    /\ now > expire_at(wait) + wait.poll_latency

\* several rounds of polling before the deadline
C26_WitnessRounds ==
    /\ WaitFailed
    /\ ~mined
    /\ NumEvents >= 6


(***************************************************************************)
(* Properties of names with bad syntax, checked under SpecSyntax.          *)
(***************************************************************************)
NameOps == {"address", "resolver", "setup_owner", "setup_address", "setup_name"}
MutatingOps == {"setup_owner", "setup_address", "setup_name"}

\* C28: address, resolver, setup_owner, setup_address and setup_name,
\* called with a name that fails normalization, fail with InvalidName
\* without a registry read, a resolver call or a transaction, and leave
\* the chain as it was.
C28_InvalidNameFirst ==
    (last.op \in NameOps /\ ~is_valid_name(last.name)) =>
        /\ last.err = "InvalidName"
        /\ last.calls = << >>
        /\ last.op \in MutatingOps => ChainUntouched

\* each of the five operations has failed with InvalidName
C28_Witness ==
    /\ last.op = "setup_address"
    /\ last.name = InnerInvalidName
    /\ last.err = "InvalidName"
    /\ \E n \in ChainNodes : owner[n] # EMPTY_ADDR_HEX
C28_WitnessAddress ==
    last.op = "address" /\ ~is_valid_name(last.name) /\ last.err = "InvalidName"
C28_WitnessResolver ==
    last.op = "resolver" /\ ~is_valid_name(last.name) /\ last.err = "InvalidName"
C28_WitnessSetupOwner ==
    last.op = "setup_owner" /\ ~is_valid_name(last.name) /\ last.err = "InvalidName"
C28_WitnessSetupName ==
    last.op = "setup_name" /\ ~is_valid_name(last.name) /\ last.err = "InvalidName"


(***************************************************************************)
(* Properties of failing transactions, checked under SpecFunds.            *)
(***************************************************************************)
\* with funds for k transactions the transaction k + 1 is the one that the
\* node refuses
SetupRan == last.op \in {"setup_owner", "setup_address"}
FundsBefore == last.pre.funds
Refused == Len(Transactions) > FundsBefore

\* C29: when a transaction of setup_owner or setup_address is refused by
\* the node, the operation fails with that failure and returns nothing,
\* the refused transaction is the last one it submitted and was submitted
\* once; when it is a setSubnodeOwner, the claims before it are the only
\* other transactions: no later claim, no setResolver and no setAddr.
C29_FailurePropagates ==
    (SetupRan /\ Refused) =>
        /\ Len(Transactions) = FundsBefore + 1
        /\ last.err = "TransactionFailed"
        /\ last.ret = None
        /\ \A j \in 1..FundsBefore :
              Transactions[j] # Transactions[FundsBefore + 1]
        /\ funds = 0
        /\ Transactions[FundsBefore + 1].fn = "setSubnodeOwner" =>
              /\ TransactionsTo({"setResolver", "setAddr"}) = << >>
              /\ \A j \in 1..Len(Transactions) :
                    Transactions[j].fn = "setSubnodeOwner"
              /\ Len(Transactions) <= UnownedCount

\* the second setSubnodeOwner of a setup_address is refused
C29_Witness ==
    /\ last.op = "setup_address"
    /\ FundsBefore = 1
    /\ Len(Transactions) = 2
    /\ Transactions[2].fn = "setSubnodeOwner"
    /\ last.err = "TransactionFailed"
    /\ owner[Transactions[1].node \o <<Transactions[1].arg.value.label>>]
          # EMPTY_ADDR_HEX

\* the first setSubnodeOwner of a setup_owner is refused
C29_WitnessFirst ==
    /\ last.op = "setup_owner"
    /\ FundsBefore = 0
    /\ Len(Transactions) = 1
    /\ last.err = "TransactionFailed"
    /\ owner = last.pre.owner

\* a setAddr is refused after the claims and the setResolver
C29_WitnessSetAddr ==
    /\ last.op = "setup_address"
    /\ Refused
    /\ Transactions[Len(Transactions)].fn = "setAddr"
    /\ last.err = "TransactionFailed"


(***************************************************************************)
(* Properties of parent, checked under SpecParent.                         *)
(***************************************************************************)
ParentRan == last.op = "parent"

\* C30: parent('') is ''; parent of a name of one label is ''; parent of a
\* name of n >= 2 labels is its last n - 1 labels in their order; and
\* parent applied again and again to a name of n labels gives its last
\* n - k labels after k < n steps, which is not '', and '' after n steps.
C30_Parent ==
    ParentRan =>
        /\ last.arg = << >> => last.ret = << >>
        /\ Len(last.arg) = 1 => last.ret = << >>
        /\ Len(last.arg) >= 2 =>
              /\ Len(last.ret) = Len(last.arg) - 1
              /\ \A i \in 1..Len(last.ret) : last.ret[i] = last.arg[i + 1]
        /\ last.steps < Len(last.name) =>
              /\ last.ret # << >>
              /\ last.ret = SubSeq(last.name, last.steps + 1, Len(last.name))
        /\ last.steps >= Len(last.name) => last.ret = << >>

\* a name of three labels after three steps
C30_Witness ==
    /\ ParentRan
    /\ Len(last.name) = MaxDepth
    /\ last.steps = MaxDepth
    /\ Len(last.arg) = 1
    /\ last.ret = << >>

\* the first step on a name of three labels
C30_WitnessFirst ==
    /\ ParentRan
    /\ last.name = <<"A", "b", "eth">>
    /\ last.steps = 1
    /\ last.ret = <<"b", "eth">>


(***************************************************************************)
(* Properties of _first_owner, checked under SpecFirstOwner.               *)
(***************************************************************************)
FirstOwnerRan == last.op = "_first_owner" /\ last.err = ""
OwnerFound == ~is_none_or_zero_address(last.ret.owner)

\* C31: _first_owner(name) returns (owner, unowned, owned) where unowned
\* holds the first labels of the normalized name in their order, each one
\* the first label of a name without an owner, and owned is the name or
\* one of its ancestors; when an owner was found, unowned followed by owned
\* is the name and owner is the registry owner of owned; when none was
\* found, owner is zero and unowned holds every label.
C31_FirstOwner ==
    FirstOwnerRan =>
        /\ \E k \in 1..(Len(LastName) + 1) : last.ret.owned = Suffix(LastName, k)
        /\ LastName # << >> =>
              /\ Len(last.ret.unowned) <= Len(LastName)
              /\ \A i \in 1..Len(last.ret.unowned) :
                    /\ last.ret.unowned[i] = LastName[i]
                    /\ owner[NodeOf(Suffix(LastName, i))] = EMPTY_ADDR_HEX
        /\ OwnerFound =>
              /\ last.ret.unowned \o last.ret.owned = LastName
              /\ last.ret.owner = owner[NodeOf(last.ret.owned)]
        /\ ~OwnerFound =>
              /\ last.ret.owner = EMPTY_ADDR_HEX
              /\ IF LastName = << >>
                 THEN last.ret.owned = << >>
                 ELSE /\ last.ret.unowned = LastName
                      /\ last.ret.owned = Suffix(LastName, Len(LastName))

\* two labels without an owner under an owned ancestor
C31_Witness ==
    /\ FirstOwnerRan
    /\ OwnerFound
    /\ Len(last.ret.unowned) = 2
    /\ last.ret.unowned[1] # last.ret.unowned[2]
    /\ last.ret.owned # << >>
    /\ last.name # LastName

\* no owner anywhere
C31_WitnessNone ==
    /\ FirstOwnerRan
    /\ ~OwnerFound
    /\ Len(last.ret.unowned) = MaxDepth


(***************************************************************************)
(* Properties of resolution step by step, checked under SpecTasks.         *)
(***************************************************************************)
Finished(t) == tasks[t].pc = "done"
AloneNow(t) == Alone(Chain, tasks[t].op, tasks[t].arg, tasks[t].key)

\* C32: a call of address, name, resolver or get_text that ran step by
\* step, interleaved in any way with the call of another caller, over a
\* chain that did not change during it, returns or raises what the
\* operation alone does against that chain and issues the same calls:
\* nothing of an earlier call or of the other caller's call is used, and a
\* change made to the registry before the call is seen by it.
C32_NoLocalState ==
    \A t \in TaskIds :
        Finished(t) =>
            /\ tasks[t].ret = AloneNow(t).ret
            /\ tasks[t].err = AloneNow(t).err
            /\ tasks[t].calls = AloneNow(t).calls

\* an address call that began and ended between two RPCs of a name call,
\* which then ended too; both found what they looked for
C32_Witness ==
    /\ Finished(1)
    /\ Finished(2)
    /\ tasks[1].op = "address"
    /\ tasks[2].op = "name"
    /\ 2 \in tasks[1].during
    /\ tasks[1].ret # None
    /\ tasks[2].ret # None
    /\ Len(tasks[1].calls) >= 3
    /\ tasks[2].calls[Len(tasks[2].calls)].fn = "addr"

\* a call that ran after the registry was changed
C32_WitnessChange ==
    /\ Finished(1)
    /\ tasks[1].op = "address"
    /\ tasks[1].err = ""
    /\ tasks[1].ret # None
    /\ tasks[1].resolver = Contract(R2, "RESOLVER")


(***************************************************************************)
(* Properties of a resolution during which the chain changes, checked      *)
(* under SpecRace.                                                         *)
(***************************************************************************)
NodeOfTask(t) == normal_name_to_hash(tasks[t].normal_name)
LastCallOf(t) == tasks[t].calls[Len(tasks[t].calls)]
\* what the resolver the task holds answers now, in the shape the task chose
AnswerOfChosen(t) ==
    IF tasks[t].branch = "extended"
    THEN _resolve_extended(Chain, tasks[t].resolver, tasks[t].normal_name,
                           NodeOfTask(t), tasks[t].fn_name).ret
    ELSE _resolve_direct(Chain, tasks[t].resolver, NodeOfTask(t),
                         tasks[t].fn_name).ret
ChoseShape(t) ==
    /\ Finished(t)
    /\ tasks[t].err = ""
    /\ tasks[t].resolver # None

\* C33: whatever another party changes in the registry or in a resolver's
\* capabilities during a call of address, the last call of _resolve goes to
\* the resolver it located, in the shape it chose after the probe (resolve
\* for an extended resolver, addr otherwise), and the value returned is
\* that resolver's answer; when it chose to make no call it returns None.
C33_ProbeThenAct ==
    \A t \in TaskIds :
        ChoseShape(t) =>
            IF tasks[t].branch = "none"
            THEN /\ tasks[t].ret = None
                 /\ LastCallOf(t).fn = "supportsInterface"
            ELSE /\ LastCallOf(t).to = tasks[t].resolver.address
                 /\ LastCallOf(t).fn =
                        IF tasks[t].branch = "extended" THEN "resolve"
                        ELSE tasks[t].fn_name
                 /\ tasks[t].ret = AnswerOfChosen(t)

\* the registry's resolver of the name changed after it was located: the
\* call returned an address that resolution on the chain as it is now does
\* not return
C33_Witness ==
    /\ ChoseShape(1)
    /\ tasks[1].branch = "direct"
    /\ resolverOf[NodeOfTask(1)] \notin {EMPTY_ADDR_HEX, tasks[1].resolver.address}
    /\ AloneNow(1).err = ""
    /\ tasks[1].ret # None
    /\ AloneNow(1).ret # None
    /\ tasks[1].ret # AloneNow(1).ret

\* the resolver's capability changed after the probe: the call used the
\* direct shape where resolution now uses resolve, with another result
C33_WitnessCapability ==
    /\ ChoseShape(1)
    /\ tasks[1].branch # "extended"
    /\ resolverOf[NodeOf(tasks[1].current_name)] = tasks[1].resolver.address
    /\ supports[tasks[1].resolver.address][EXTENDED_RESOLVER_INTERFACE_ID] = "true"
    /\ AloneNow(1).err = ""
    /\ tasks[1].ret # AloneNow(1).ret


(***************************************************************************)
(* Properties of the sender of the claims, checked under SpecOwner.        *)
(***************************************************************************)
\* the registry owner of the parent node of the i-th transaction of the
\* last setup_owner at the moment it was sent: the owner the previous
\* claim gave the node when that claim was applied, the owner before the
\* call otherwise
RECURSIVE ParentOwnerAt(_)
ParentOwnerAt(i) ==
    IF i > 1 /\ ParentOwnerAt(i - 1) = Transactions[i - 1].arg.from
    THEN Transactions[i - 1].arg.value.owner
    ELSE last.pre.owner[Transactions[i].node]
\* the transactions the node accepted: all but one that raised
Submitted ==
    {i \in 1..Len(Transactions) :
        i < Len(Transactions) \/ last.err # "TransactionFailed"}

\* C34: every setSubnodeOwner transaction that setup_owner submits is sent
\* from the account that owns the transaction's parent node in the
\* registry at that moment.
C34_SenderOwnsParent ==
    SetupOwnerRan =>
        \A i \in Submitted : Transactions[i].arg.from = ParentOwnerAt(i)


(***************************************************************************)
(* Properties of the setup operations, checked under SpecSetup.            *)
(***************************************************************************)
SetupOps == {"setup_owner", "setup_address", "setup_name"}
Unauthorized(op) == last.op = op /\ last.err = "UnauthorizedError"

\* C35: a setup_owner, setup_address or setup_name that fails with
\* UnauthorizedError has sent no transaction, and the owners, resolvers,
\* address records and name records on chain are as before the call.
C35_UnauthorizedBeforeTransactions ==
    \A op \in SetupOps :
        Unauthorized(op) =>
            /\ Transactions = << >>
            /\ ChainUntouched
            /\ funds = last.pre.funds

\* setup_address refused for a name with unowned labels under an ancestor
\* owned by an account that is not controlled
C35_Witness ==
    /\ Unauthorized("setup_address")
    /\ last.pre.owner[NodeOf(LastName)] = EMPTY_ADDR_HEX
    /\ SuperOwner(last.pre.owner, LastName) # EMPTY_ADDR_HEX
    /\ accounts # {}

C35_WitnessOwner ==
    /\ Unauthorized("setup_owner")
    /\ last.pre.owner[NodeOf(LastName)] = EMPTY_ADDR_HEX
    /\ accounts # {}

\* setup_name refused although the name has no address yet and its owner
\* could be claimed
C35_WitnessName ==
    /\ Unauthorized("setup_name")
    /\ NamedRan
    /\ last.pre.owner[NodeOf(FullName)] = EMPTY_ADDR_HEX
    /\ accounts # {}


(***************************************************************************)
(* Properties of the read operations, checked under SpecReads.             *)
(***************************************************************************)
ReadOps == {"address", "name", "resolver", "reverser", "owner", "get_text"}
OnlyCalls(calls) == \A i \in 1..Len(calls) : calls[i].kind = "call"

\* C36: a call of address, name, resolver, reverser, owner or get_text
\* leaves the chain as it was, whether it returns or raises, and every RPC
\* it issues is an eth_call (or the read of the accounts), never a
\* transaction.
C36_ReadsSubmitNothing ==
    [][last'.op \in ReadOps =>
          /\ UNCHANGED chainVars
          /\ OnlyCalls(last'.calls)]_vars

\* a name call that resolved backward and forward
C36_Witness ==
    /\ last.op = "name"
    /\ last.err = ""
    /\ last.ret # None
    /\ Len(last.calls) >= 6

C36_WitnessGetText ==
    /\ last.op = "get_text"
    /\ last.err = ""
    /\ Len(last.calls) >= 3

C36_WitnessReverser ==
    /\ last.op = "reverser"
    /\ last.ret # None

C36_WitnessOwner ==
    /\ last.op = "owner"
    /\ last.ret = Address(1, "checksum")


(***************************************************************************)
(* Properties of the caller's transaction configuration, checked under     *)
(* SpecTransact.                                                           *)
(***************************************************************************)
TransactRan == last.op = "transact"

\* C37: after setup_owner, setup_address, setup_name or set_text, whatever
\* steps the call reached, the dictionary the caller passed has the keys
\* and values it had before the call.
C37_TransactNotModified ==
    TransactRan => last.after = last.transact

\* a setup_address given a dictionary with another 'from', that claimed
\* and wrote: the copies carry the owner as 'from', the caller's does not
C37_Witness ==
    /\ TransactRan
    /\ last.method = "setup_address"
    /\ last.transact \notin {None, EmptyDict}
    /\ last.transact.from \notin {None, last.from}
    /\ last.path.claim
    /\ last.path.write
    /\ \E i \in 2..Len(last.objs) : last.objs[i].from = last.from

C37_WitnessName ==
    /\ TransactRan
    /\ last.method = "setup_name"
    /\ last.transact = TxParamsGas(None)
    /\ last.path.forward
    /\ last.path.reverse
    /\ \E i \in 2..Len(last.objs) : last.objs[i].from = last.from

C37_WitnessSetText ==
    /\ TransactRan
    /\ last.method = "set_text"
    /\ last.transact = TxParamsGas(None)
    /\ last.objs[Len(last.objs)].from = last.from


(***************************************************************************)
(* Properties of get_text below an ancestor's resolver, checked under      *)
(* SpecReads.                                                              *)
(***************************************************************************)
\* the nearest resolver of the name of the last call sits at a strict
\* ancestor
AncestorOnly ==
    /\ is_valid_name(last.name)
    /\ Registered(Queried) # {}
    /\ Nearest(Queried) > 1

\* C38: when the nearest resolver of the name is registered at a strict
\* ancestor and answers true to the probe of the text interface, get_text
\* calls text(node of the full name, key) on that resolver and returns what
\* it answers; address, for a nearest resolver at a strict ancestor that
\* answers false to the probe of extended resolution, returns None and
\* makes no call of addr or resolve.
C38_TextFromAncestor ==
    /\ (/\ last.op = "get_text"
        /\ AncestorOnly
        /\ ProbeTrue(NearestResolver(Queried), "RESOLVER", GET_TEXT_INTERFACE_ID))
       => /\ last.err = ""
          /\ last.calls[Len(last.calls)] =
                Call(NearestResolver(Queried), "text", NodeOf(Queried),
                     [k |-> "key", key |-> last.key])
          /\ last.ret = [k |-> "text",
                         value |-> textRec[NearestResolver(Queried)][NodeOf(Queried)]]
          /\ CallsOf({"text"}) = {Len(last.calls)}
    /\ (/\ last.op = "address"
        /\ AncestorOnly
        /\ ProbeFalse(NearestResolver(Queried), "RESOLVER",
                      EXTENDED_RESOLVER_INTERFACE_ID))
       => /\ last.err = ""
          /\ last.ret = None
          /\ CallsOf({"addr", "resolve"}) = {}

\* get_text answered by the resolver of the grandparent, which does not
\* support extended resolution, so that address of the same name is None
C38_Witness ==
    /\ last.op = "get_text"
    /\ AncestorOnly
    /\ Nearest(Queried) = MaxDepth
    /\ Len(Queried) = MaxDepth
    /\ supports[NearestResolver(Queried)][EXTENDED_RESOLVER_INTERFACE_ID] = "false"
    /\ last.ret = [k |-> "text", value |-> "text of the name"]
    /\ ENS_address(Chain, last.name).ret = None

C38_WitnessAddress ==
    /\ last.op = "address"
    /\ AncestorOnly
    /\ supports[NearestResolver(Queried)][EXTENDED_RESOLVER_INTERFACE_ID] = "false"
    /\ supports[NearestResolver(Queried)][GET_TEXT_INTERFACE_ID] = "true"
    /\ addrRec[NearestResolver(Queried)][NodeOf(Queried)] # EMPTY_ADDR_HEX
    /\ last.ret = None


(***************************************************************************)
(* Properties of the two waits side by side, checked under SpecWaitBoth.   *)
(***************************************************************************)
BothDone ==
    /\ wait.pc = "both"
    /\ wait.sync.pc = "done"
    /\ wait.async.pc = "done"
SameResult ==
    /\ wait.sync.ret = wait.async.ret
    /\ wait.sync.err = wait.async.err
\* a fetch that failed with an error other than TransactionNotFound ended
\* the call with that error
ErrorEndsCall(w) ==
    /\ \A i \in 1..Len(w.events) :
          (w.events[i].e = "fetch" /\ w.events[i].v = "error")
              => i = Len(w.events) /\ w.err = "FetchError"
    /\ w.err \in {"", "TimeExhausted", "FetchError"}
    /\ w.err = "FetchError" =>
          /\ w.events # << >>
          /\ w.events[Len(w.events)].v = "error"

\* the claim as stated (violated): for the same timeout, poll interval and
\* fetches, both calls return the same receipt or fail with the same error
C39_SameResultAlways == BothDone => SameResult

\* C39: for the same timeout, poll interval and fetches, the blocking and
\* the asynchronous call make the same fetches and sleeps and end with the
\* same receipt or the same error whenever the asynchronous call is not
\* ended by its deadline; an error of a fetch other than
\* TransactionNotFound ends either call with that error at once; and when
\* the blocking call fails with TimeExhausted so does the asynchronous one.
C39_SameUnlessDeadline ==
    BothDone =>
        /\ wait.async.err # "TimeExhausted" =>
              /\ SameResult
              /\ wait.sync.events = wait.async.events
        /\ wait.sync.err = "TimeExhausted" => wait.async.err = "TimeExhausted"
        /\ ErrorEndsCall(wait.sync)
        /\ ErrorEndsCall(wait.async)

\* both calls polled twice in vain and then returned the same receipt
C39_Witness ==
    /\ BothDone
    /\ wait.sync.ret # None
    /\ wait.async.ret = wait.sync.ret
    /\ Len(wait.async.events) = 5
    /\ wait.script[1].outcome = "notfound"
    /\ wait.script[2].outcome = "null"

\* both calls ended with the error of their second fetch
C39_WitnessError ==
    /\ BothDone
    /\ wait.sync.err = "FetchError"
    /\ wait.async.err = "FetchError"
    /\ Len(wait.sync.events) = 3
    /\ Len(wait.async.events) = 3

\* the blocking call returned the receipt of a fetch that the deadline
\* ended in the asynchronous call
C39_WitnessDeadline ==
    /\ BothDone
    /\ wait.sync.ret # None
    /\ wait.async.err = "TimeExhausted"
    /\ wait.sync.timeout > 0

====
